---- MODULE Spec2Model ----
(***************************************************************************)
(* The perception-driven eye animation control loop of the dual eye        *)
(* tracker: the EyeTracker object of main.py (perception modes, timers,    *)
(* colour and size targets, eye targets) and the render cache of           *)
(* create_eye_image.                                                       *)
(*                                                                         *)
(* Time.  The code reads the clock with time.time() and uses every stored  *)
(* time-stamp t only in the form  current_time - t.  The model keeps that  *)
(* difference: the field since_motion is current_time - last_motion_time,  *)
(* and so on.  Setting a stamp to current_time sets the difference to 0;   *)
(* the action Tick lets one second pass.  A difference stops growing at    *)
(* the largest value it is ever compared with (plus one where the          *)
(* comparison is strict), so every comparison of the code is kept.         *)
(*                                                                         *)
(* Positions.  The code computes eye positions as floats.  The model keeps *)
(* them exactly, as integers in units of 1/Scale pixel; Scale is chosen so *)
(* that the mapping from the camera frame and the mean over at most        *)
(* motion_history_size positions are exact.                                *)
(***************************************************************************)
EXTENDS Integers, Sequences, FiniteSets, TLC

VARIABLES
    tracker,     \* the EyeTracker object: a record of its fields
    camera_pc,   \* where camera_thread stands in its loop body
    eye_cache,   \* one render cache (a dict, kept in insertion order)
    inserted_at, \* history variable: for each cached key, the number of its insertion
    n_inserts,   \* history variable: insertions made so far
    args,        \* the arguments of the latest call of a pure function followed
    result,      \* what that call returned
    loops        \* the threads: the running flag, where each thread is, the handles

vars == <<tracker, camera_pc, eye_cache, inserted_at, n_inserts, args, result,
          loops>>

(***************************************************************************)
(* Program constants                                                       *)
(***************************************************************************)
WIDTH == 240
HEIGHT == 240
camera_width == 800
camera_height == 600
motion_timeout == 2
motion_history_size == 5
face_detection_interval == 20
face_detection_timeout == 5
face_following_timeout == 7
settle_window == 1
max_face_history == 5
min_face_size == 10000
max_face_size == 57600
total_eye_sizes == 30
neutral_eye_size_index == 15
display_margin == 20

base_eye_color == <<255, 255, 0>>
face_eye_color == <<255, 0, 0>>

(***************************************************************************)
(* Bounds of the model                                                     *)
(***************************************************************************)
\* The capacity the cache is run with (main.py runs it with 100).
cache_size == 3
\* Number of cache insertions followed.
MaxInserts == 5

\* np.random.uniform(10, 30) and np.random.uniform(20, 40) at construction,
\* and the pair of np.random.uniform(5, 10) in start_idle_mode: the values
\* the model draws.
InitialTriggerDelays == {10, 11}
InitialResumeDelays == {20}
Draws == {[trigger |-> 5, resume |-> 6], [trigger |-> 6, resume |-> 5]}
RearmTriggerDelays == {d.trigger : d \in Draws}
ResumeDelays == {d.resume : d \in Draws}

\* Python's None: for a position or box list the empty tuple, for an
\* elapsed time (a stamp that is None) NoTime.
None == <<>>
NoTime == 0 - 1
Scale == 12 * 60

Min(a, b) == IF a <= b THEN a ELSE b
Max(a, b) == IF a >= b THEN a ELSE b
SetMax(S) == CHOOSE m \in S : \A x \in S : x <= m

Px(x, y) == <<x * Scale, y * Scale>>
center_pos == Px(WIDTH \div 2, HEIGHT \div 2)

RECURSIVE SumOf(_, _)
SumOf(seq, i) == IF seq = <<>> THEN 0 ELSE Head(seq)[i] + SumOf(Tail(seq), i)

RECURSIVE SumSeq(_)
SumSeq(seq) == IF seq = <<>> THEN 0 ELSE Head(seq) + SumSeq(Tail(seq))

\* sum(pos[k] for pos in history) / len(history), per axis
MeanPos(history) ==
    <<SumOf(history, 1) \div Len(history), SumOf(history, 2) \div Len(history)>>

\* list.append followed by "if len(list) > size: list.pop(0)"
AppendBounded(seq, e, size) ==
    LET a == Append(seq, e) IN IF Len(a) > size THEN Tail(a) ELSE a

BoxArea(b) == b[3] * b[4]

\* max(boxes, key=lambda m: m[2] * m[3]): the first box of largest area
Largest(boxes) ==
    LET best == CHOOSE i \in 1..Len(boxes) :
                   /\ \A j \in 1..Len(boxes) : BoxArea(boxes[j]) <= BoxArea(boxes[i])
                   /\ \A j \in 1..(i - 1) : BoxArea(boxes[j]) < BoxArea(boxes[i])
    IN boxes[best]

\* x + w//2, y + h//2
BoxCenter(b) == <<b[1] + b[3] \div 2, b[2] + b[4] \div 2>>

\* A variant of the mapping that uses the whole half extent of the display,
\* without the margin.  C15_TargetsInsideMargin tells it from MapToDisplay.
MapToDisplay_no_margin(c) ==
    <<(WIDTH \div 2) * Scale
        - ((c[1] - camera_width \div 2) * (WIDTH \div 2) * Scale)
              \div (camera_width \div 2),
      (HEIGHT \div 2) * Scale
        + ((c[2] - camera_height \div 2) * (HEIGHT \div 2) * Scale)
              \div (camera_height \div 2)>>

\* A variant of the mapping without the inversion of the x axis.
\* C16_CornerBoxMapsRightAndAbove tells it from MapToDisplayIn.
MapToDisplayIn_not_inverted(c, frame_width, frame_height) ==
    <<(WIDTH \div 2) * Scale
        + ((c[1] - frame_width \div 2) * (WIDTH \div 2 - display_margin) * Scale)
              \div (frame_width \div 2),
      (HEIGHT \div 2) * Scale
        + ((c[2] - frame_height \div 2) * (HEIGHT \div 2 - display_margin) * Scale)
              \div (frame_height \div 2)>>

\* norm = (c - half) / half;  eye_x = WIDTH//2 - norm_x * (WIDTH//2 - 20),
\* eye_y = HEIGHT//2 + norm_y * (HEIGHT//2 - 20), for a sensor frame of
\* frame_width x frame_height (self.camera_width, self.camera_height)
MapToDisplayIn(c, frame_width, frame_height) ==
    <<(WIDTH \div 2) * Scale
        - ((c[1] - frame_width \div 2) * (WIDTH \div 2 - display_margin) * Scale)
              \div (frame_width \div 2),
      (HEIGHT \div 2) * Scale
        + ((c[2] - frame_height \div 2) * (HEIGHT \div 2 - display_margin) * Scale)
              \div (frame_height \div 2)>>

\* the mapping with the frame size __init__ sets
MapToDisplay(c) == MapToDisplayIn(c, camera_width, camera_height)

get_eye_position_from_face(face_center) ==
    IF face_center = None THEN center_pos ELSE MapToDisplay(face_center)

motion_eye_position(motion_boxes) == MapToDisplay(BoxCenter(Largest(motion_boxes)))


(***************************************************************************)
(* EyeTracker: face detection, colour, size and face-following             *)
(***************************************************************************)

\* A variant of update_face_size that leaves a full history as it is, so
\* that a new area never displaces the oldest.  C20_FaceSizeHistory tells it
\* from update_face_size.
update_face_size_keeping_oldest(s, faces) ==
    IF Len(faces) > 0
    THEN LET face_area == BoxArea(Largest(faces))
             sizes == IF Len(s.face_sizes) >= max_face_history THEN s.face_sizes
                      ELSE Append(s.face_sizes, face_area)
             n == Len(sizes)
             total == SumSeq(sizes)
             index == IF total <= min_face_size * n THEN 0
                      ELSE IF total >= max_face_size * n THEN total_eye_sizes - 1
                      ELSE ((total - min_face_size * n) * (total_eye_sizes - 1))
                               \div ((max_face_size - min_face_size) * n)
         IN [s EXCEPT !.face_sizes = sizes, !.target_eye_size_index = index]
    ELSE s

\* A variant of update_face_size without line 404, the clamp of face_ratio
\* to [0, 1].  C21_ColourAndSizeInRange tells it from update_face_size.
update_face_size_unclamped(s, faces) ==
    IF Len(faces) > 0
    THEN LET face_area == BoxArea(Largest(faces))
             sizes == AppendBounded(s.face_sizes, face_area, max_face_history)
             n == Len(sizes)
             total == SumSeq(sizes)
             index == ((total - min_face_size * n) * (total_eye_sizes - 1))
                          \div ((max_face_size - min_face_size) * n)
         IN [s EXCEPT !.face_sizes = sizes, !.target_eye_size_index = index]
    ELSE s

\* update_face_size: the history of face areas and the size target.
\* int(clamp((avg - min) / (max - min), 0, 1) * (total_eye_sizes - 1)) with
\* avg = sum / len, computed on integers.
update_face_size(s, faces) ==
    IF Len(faces) > 0
    THEN LET face_area == BoxArea(Largest(faces))
             sizes == AppendBounded(s.face_sizes, face_area, max_face_history)
             n == Len(sizes)
             total == SumSeq(sizes)
             index == IF total <= min_face_size * n THEN 0
                      ELSE IF total >= max_face_size * n THEN total_eye_sizes - 1
                      ELSE ((total - min_face_size * n) * (total_eye_sizes - 1))
                               \div ((max_face_size - min_face_size) * n)
         IN [s EXCEPT !.face_sizes = sizes, !.target_eye_size_index = index]
    ELSE s

\* A variant of update_face_following without the settle window: the mode is
\* entered on any face.  C3_SettleWindow tells it from update_face_following.
update_face_following_no_settle(s, faces) ==
    IF Len(faces) > 0
    THEN [s EXCEPT !.current_face_center = BoxCenter(Largest(faces)),
                   !.face_following_mode = TRUE,
                   !.since_face_following = 0]
    ELSE s

\* update_face_following: record the centre of the largest face, enter the
\* mode when there has been no motion for more than the settle window, and
\* refresh the hold timer while in the mode.
update_face_following(s, faces) ==
    IF Len(faces) > 0
    THEN LET s1 == [s EXCEPT !.current_face_center = BoxCenter(Largest(faces))]
             s2 == IF ~s1.face_following_mode /\ s1.since_motion > settle_window
                   THEN [s1 EXCEPT !.face_following_mode = TRUE,
                                   !.since_face_following = 0]
                   ELSE s1
         IN IF s2.face_following_mode
            THEN [s2 EXCEPT !.since_face_following = 0]
            ELSE s2
    ELSE s

\* A variant of update_face_detection whose colour rule is tied to the mode:
\* a face turns the target to the alert colour only outside Idle.
\* C9_ColourIndependentOfMode tells it from update_face_detection.
update_face_detection_mode_bound(s, faces) ==
    IF Len(faces) > 0
    THEN LET s1 == IF ~s.face_detected /\ ~s.idle_mode
                   THEN [s EXCEPT !.face_detected = TRUE,
                                  !.target_eye_color = face_eye_color]
                   ELSE s
             s2 == [s1 EXCEPT !.since_face_detection = 0]
         IN update_face_following(update_face_size(s2, faces), faces)
    ELSE LET s1 == IF s.face_detected
                      /\ s.since_face_detection > face_detection_timeout
                   THEN [s EXCEPT !.face_detected = FALSE,
                                  !.target_eye_color = base_eye_color,
                                  !.target_eye_size_index = neutral_eye_size_index]
                   ELSE s
         IN IF s1.face_following_mode
            THEN [s1 EXCEPT !.face_following_mode = FALSE,
                            !.current_face_center = None]
            ELSE s1

\* A variant of update_face_detection that resets the size target to zero
\* when the face timeout has run out.  C22_SizeTargetRevertsToNeutral tells
\* it from update_face_detection.
update_face_detection_size_to_zero(s, faces) ==
    IF Len(faces) > 0
    THEN LET s1 == IF ~s.face_detected
                   THEN [s EXCEPT !.face_detected = TRUE,
                                  !.target_eye_color = face_eye_color]
                   ELSE s
             s2 == [s1 EXCEPT !.since_face_detection = 0]
         IN update_face_following(update_face_size(s2, faces), faces)
    ELSE LET s1 == IF s.face_detected
                      /\ s.since_face_detection > face_detection_timeout
                   THEN [s EXCEPT !.face_detected = FALSE,
                                  !.target_eye_color = base_eye_color,
                                  !.target_eye_size_index = 0]
                   ELSE s
         IN IF s1.face_following_mode
            THEN [s1 EXCEPT !.face_following_mode = FALSE,
                            !.current_face_center = None]
            ELSE s1

\* update_face_detection: the colour rule, then size and face-following.
update_face_detection(s, faces) ==
    IF Len(faces) > 0
    THEN LET s1 == IF ~s.face_detected
                   THEN [s EXCEPT !.face_detected = TRUE,
                                  !.target_eye_color = face_eye_color]
                   ELSE s
             s2 == [s1 EXCEPT !.since_face_detection = 0]
         IN update_face_following(update_face_size(s2, faces), faces)
    ELSE LET s1 == IF s.face_detected
                      /\ s.since_face_detection > face_detection_timeout
                   THEN [s EXCEPT !.face_detected = FALSE,
                                  !.target_eye_color = base_eye_color,
                                  !.target_eye_size_index = neutral_eye_size_index]
                   ELSE s
         IN IF s1.face_following_mode
            THEN [s1 EXCEPT !.face_following_mode = FALSE,
                            !.current_face_center = None]
            ELSE s1

(***************************************************************************)
(* EyeTracker: idle mode                                                   *)
(***************************************************************************)

\* start_idle_mode; draw holds the two delays np.random.uniform returns.
\* (idle_animations is set by init_display before the loops run.)
start_idle_mode(s, draw) ==
    [s EXCEPT !.idle_mode = TRUE,
              !.idle_elapsed = 0,
              !.idle_animation_started = FALSE,
              !.idle_trigger_delay = draw.trigger,
              !.idle_resume_delay = draw.resume]

\* A variant of exit_idle_mode that keeps the motion history.
\* C6_MotionEndsIdle tells it from exit_idle_mode.
exit_idle_mode_keeping_history(s) ==
    [s EXCEPT !.idle_mode = FALSE,
              !.idle_elapsed = NoTime,
              !.idle_animation_started = FALSE,
              !.target_left_eye = center_pos,
              !.target_right_eye = center_pos]

\* A variant of exit_idle_mode that takes the end of Idle for a motion
\* event and refreshes last_motion_time.  C34_TimerExitReentersIdle tells it
\* from exit_idle_mode.
exit_idle_mode_refreshing_motion(s) ==
    [s EXCEPT !.idle_mode = FALSE,
              !.idle_elapsed = NoTime,
              !.idle_animation_started = FALSE,
              !.target_left_eye = center_pos,
              !.target_right_eye = center_pos,
              !.motion_history = <<>>,
              !.since_motion = 0]

exit_idle_mode(s) ==
    [s EXCEPT !.idle_mode = FALSE,
              !.idle_elapsed = NoTime,
              !.idle_animation_started = FALSE,
              !.target_left_eye = center_pos,
              !.target_right_eye = center_pos,
              !.motion_history = <<>>]

\* A variant of check_idle_animation_trigger that reads the wrong delay
\* (motion_timeout).  C5_IdleTrigger tells it from check_idle_animation_trigger.
check_idle_animation_trigger_wrong_delay(s, draw) ==
    IF s.idle_mode THEN s
    ELSE IF s.since_motion >= motion_timeout THEN start_idle_mode(s, draw)
    ELSE s

check_idle_animation_trigger(s, draw) ==
    IF s.idle_mode THEN s
    ELSE IF s.since_motion >= s.idle_trigger_delay THEN start_idle_mode(s, draw)
    ELSE s

(***************************************************************************)
(* EyeTracker: update_eye_position                                         *)
(***************************************************************************)

\* A variant of track_position that also moves the eyes themselves to the
\* new target.  C30_AcquisitionLeavesEyeState tells it from track_position.
track_position_snapping_eyes(s, pos) ==
    LET history == AppendBounded(s.motion_history, pos, motion_history_size)
        target == IF Len(history) >= 2 THEN MeanPos(history) ELSE pos
    IN [s EXCEPT !.motion_history = history,
                 !.target_left_eye = target,
                 !.target_right_eye = target,
                 !.current_left_eye = target,
                 !.current_right_eye = target]

\* append the position to motion_history and set both targets to the mean
\* of the history (to the position itself while the history has one entry)
track_position(s, pos) ==
    LET history == AppendBounded(s.motion_history, pos, motion_history_size)
        target == IF Len(history) >= 2 THEN MeanPos(history) ELSE pos
    IN [s EXCEPT !.motion_history = history,
                 !.target_left_eye = target,
                 !.target_right_eye = target]

\* A variant of lines 489-500 in which a motion event interrupts idle but
\* not face-following.  C2_MotionPriority tells it from motion_interrupt.
motion_interrupt_idle_only(s, motion_boxes) ==
    IF Len(motion_boxes) > 0
    THEN LET s1 == [s EXCEPT !.since_motion = 0]
         IN IF s1.idle_mode THEN exit_idle_mode(s1) ELSE s1
    ELSE s

\* lines 489-500: a motion event interrupts face-following and idle
motion_interrupt(s, motion_boxes) ==
    IF Len(motion_boxes) > 0
    THEN LET s1 == [s EXCEPT !.since_motion = 0]
             s2 == IF s1.face_following_mode
                   THEN [s1 EXCEPT !.face_following_mode = FALSE,
                                   !.current_face_center = None]
                   ELSE s1
         IN IF s2.idle_mode THEN exit_idle_mode(s2) ELSE s2
    ELSE s

\* lines 502-507: the face-follow hold timer
face_following_expiry(s) ==
    IF s.face_following_mode /\ s.since_face_following > face_following_timeout
    THEN [s EXCEPT !.face_following_mode = FALSE, !.current_face_center = None]
    ELSE s

\* A variant of choose_position without the early return of Idle.
\* C28_IdleTargetsOnlyFromScript tells it from choose_position.
choose_position_in_idle_too(s, motion_boxes) ==
    IF s.face_following_mode /\ s.current_face_center # None
    THEN track_position(s, get_eye_position_from_face(s.current_face_center))
    ELSE IF Len(motion_boxes) > 0
    THEN track_position([s EXCEPT !.since_motion = 0],
                        motion_eye_position(motion_boxes))
    ELSE IF s.since_motion > motion_timeout
    THEN [s EXCEPT !.target_left_eye = center_pos,
                   !.target_right_eye = center_pos,
                   !.motion_history = <<>>]
    ELSE s

\* A variant of choose_position that returns to the centre as soon as
\* motion_timeout is reached.  C38_CentreAfterMotionTimeout tells it from
\* choose_position.
choose_position_at_timeout(s, motion_boxes) ==
    IF s.idle_mode THEN s
    ELSE IF s.face_following_mode /\ s.current_face_center # None
    THEN track_position(s, get_eye_position_from_face(s.current_face_center))
    ELSE IF Len(motion_boxes) > 0
    THEN track_position([s EXCEPT !.since_motion = 0],
                        motion_eye_position(motion_boxes))
    ELSE IF s.since_motion >= motion_timeout
    THEN [s EXCEPT !.target_left_eye = center_pos,
                   !.target_right_eye = center_pos,
                   !.motion_history = <<>>]
    ELSE s

\* lines 512-584: the position source is chosen by mode
choose_position(s, motion_boxes) ==
    IF s.idle_mode THEN s
    ELSE IF s.face_following_mode /\ s.current_face_center # None
    THEN track_position(s, get_eye_position_from_face(s.current_face_center))
    ELSE IF Len(motion_boxes) > 0
    THEN track_position([s EXCEPT !.since_motion = 0],
                        motion_eye_position(motion_boxes))
    ELSE IF s.since_motion > motion_timeout
    THEN [s EXCEPT !.target_left_eye = center_pos,
                   !.target_right_eye = center_pos,
                   !.motion_history = <<>>]
    ELSE s

update_eye_position(s, motion_boxes, draw) ==
    choose_position(
        check_idle_animation_trigger(
            face_following_expiry(motion_interrupt(s, motion_boxes)), draw),
        motion_boxes)

\* A variant of camera_cycle that does not reset the counter when the face
\* check runs.  C29_FaceCheckEveryNthCycle tells it from camera_cycle.
camera_cycle_without_reset(s, motion_boxes, faces, draw) ==
    LET s1 == [s EXCEPT !.face_detection_counter = @ + 1]
        s2 == IF s1.face_detection_counter >= face_detection_interval
              THEN update_face_detection(s1, faces)
              ELSE s1
    IN update_eye_position(s2, motion_boxes, draw)

\* One iteration of camera_thread: motion detection every cycle, the face
\* check on every face_detection_interval-th cycle, then update_eye_position.
camera_cycle(s, motion_boxes, faces, draw) ==
    LET s1 == [s EXCEPT !.face_detection_counter = @ + 1]
        s2 == IF s1.face_detection_counter >= face_detection_interval
              THEN update_face_detection(
                       [s1 EXCEPT !.face_detection_counter = 0], faces)
              ELSE s1
    IN update_eye_position(s2, motion_boxes, draw)

\* whether the cycle that starts in s runs the face check
face_check_due(s) == s.face_detection_counter + 1 >= face_detection_interval

(***************************************************************************)
(* Render loop: update_idle_animation                                      *)
(***************************************************************************)

\* A variant of update_idle_animation that never records that the script
\* has been started.  C23_OneScriptPerEpisode tells it from
\* update_idle_animation.
update_idle_animation_never_started(s, script_pos) ==
    IF ~s.idle_mode THEN s
    ELSE IF s.idle_elapsed >= s.idle_resume_delay THEN exit_idle_mode(s)
    ELSE [s EXCEPT !.target_left_eye = script_pos[1],
                   !.target_right_eye = script_pos[2]]

\* update_idle_animation; script_pos is what the running script returns.
update_idle_animation(s, script_pos) ==
    IF ~s.idle_mode THEN s
    ELSE IF s.idle_elapsed >= s.idle_resume_delay THEN exit_idle_mode(s)
    ELSE [s EXCEPT !.idle_animation_started = TRUE,
                   !.target_left_eye = script_pos[1],
                   !.target_right_eye = script_pos[2]]

\* lines 652-661: the call gets past the two early returns, so that the
\* script is updated (line 670)
updates_script(s) == s.idle_mode /\ s.idle_elapsed < s.idle_resume_delay

\* lines 664-667: the call invokes start_random_animation
selects_script(s) == updates_script(s) /\ ~s.idle_animation_started

(***************************************************************************)
(* The two loops, statement by statement.  update_eye_position runs in the *)
(* acquisition thread and update_idle_animation in the render thread, on   *)
(* the same object and with no lock: a thread may be between two of its    *)
(* statements when the other one runs.  The calls are cut where that       *)
(* matters: after the write of idle_mode in start_idle_mode and in         *)
(* exit_idle_mode, and in update_idle_animation after the test of          *)
(* idle_mode, after the read of idle_start_time and before the write of    *)
(* the targets.                                                            *)
(***************************************************************************)
\* exit_idle_mode, line 638, and its lines 639-647
exit_idle_mode_flag(s) == [s EXCEPT !.idle_mode = FALSE]

exit_idle_mode_rest(s) ==
    [s EXCEPT !.idle_elapsed = NoTime,
              !.idle_animation_started = FALSE,
              !.target_left_eye = center_pos,
              !.target_right_eye = center_pos,
              !.motion_history = <<>>]

\* start_idle_mode, line 626, and its lines 627-632
start_idle_mode_flag(s) == [s EXCEPT !.idle_mode = TRUE]

start_idle_mode_rest(s, draw) ==
    [s EXCEPT !.idle_elapsed = 0,
              !.idle_animation_started = FALSE,
              !.idle_trigger_delay = draw.trigger,
              !.idle_resume_delay = draw.resume]

\* update_eye_position up to the first write of idle_mode it makes, or to
\* its end if it makes none: the object it leaves and the place the thread
\* is at.
update_eye_position_begin(s, motion_boxes) ==
    LET s1 == IF Len(motion_boxes) > 0
              THEN LET moved == [s EXCEPT !.since_motion = 0]
                   IN IF moved.face_following_mode
                      THEN [moved EXCEPT !.face_following_mode = FALSE,
                                         !.current_face_center = None]
                      ELSE moved
              ELSE s
    IN IF Len(motion_boxes) > 0 /\ s1.idle_mode
       THEN [s |-> exit_idle_mode_flag(s1), at |-> "exit_idle_mode"]
       ELSE LET s2 == face_following_expiry(s1)
            IN IF ~s2.idle_mode /\ s2.since_motion >= s2.idle_trigger_delay
               THEN [s |-> start_idle_mode_flag(s2), at |-> "start_idle_mode"]
               ELSE [s |-> choose_position(s2, motion_boxes), at |-> "call"]

\* the rest of the call, from the statement after the write of idle_mode
update_eye_position_end(s, at, motion_boxes, draw) ==
    IF at = "exit_idle_mode"
    THEN choose_position(
             check_idle_animation_trigger(
                 face_following_expiry(exit_idle_mode_rest(s)), draw),
             motion_boxes)
    ELSE choose_position(start_idle_mode_rest(s, draw), motion_boxes)

\* update_idle_animation, one statement at a time: the test of idle_mode
\* (line 653), the read of idle_start_time for the elapsed time (line 659;
\* the subtraction raises TypeError on None, and display_thread_func
\* catches it), lines 664-667, and the write of the targets (lines
\* 680-681).  failed tells whether the statement raised.
update_idle_animation_step(s, at, script_pos) ==
    IF at = "call"
    THEN [s |-> s, at |-> IF s.idle_mode THEN "read_idle_start_time" ELSE "call",
          failed |-> FALSE]
    ELSE IF at = "read_idle_start_time"
    THEN IF s.idle_elapsed = NoTime
         THEN [s |-> s, at |-> "call", failed |-> TRUE]
         ELSE IF s.idle_elapsed >= s.idle_resume_delay
         THEN [s |-> exit_idle_mode(s), at |-> "call", failed |-> FALSE]
         ELSE [s |-> s, at |-> "select_script", failed |-> FALSE]
    ELSE IF at = "select_script"
    THEN [s |-> [s EXCEPT !.idle_animation_started = TRUE],
          at |-> "write_targets", failed |-> FALSE]
    ELSE [s |-> [s EXCEPT !.target_left_eye = script_pos[1],
                          !.target_right_eye = script_pos[2]],
          at |-> "call", failed |-> FALSE]

(***************************************************************************)
(* create_eye_image: the render cache                                      *)
(*                                                                         *)
(* A cache is a Python dict, which keeps its keys in insertion order: the  *)
(* model keeps it as the sequence of <<key, value>> in that order.         *)
(* Coordinates are whole pixels (the caller passes int(x)); blink_state is *)
(* in hundredths and a blink key in tenths.                                *)
(***************************************************************************)
iris_radius == 50

\* round(v / 5) * 5 for a whole v >= 0 (v / 5 is never half-way)
cache_coord(v) == ((2 * v + 5) \div 10) * 5

\* round(blink_state * 10): Python rounds a half to the even neighbour
blink_key(blink_state) ==
    LET q == blink_state \div 10
        r == blink_state % 10
    IN IF r > 5 THEN q + 1
       ELSE IF r < 5 THEN q
       ELSE IF q % 2 = 0 THEN q ELSE q + 1

cache_key(eye_x, eye_y, blink_state, eye_color) ==
    <<cache_coord(eye_x), cache_coord(eye_y), blink_key(blink_state), eye_color>>

pupil_radius == 25
glow_size == 15

\* render_size = WIDTH: the buffer is render_size x render_size
render_size == WIDTH

\* int(max(iris_radius, min(render_size - iris_radius, int(v))))
render_coord(v) == Max(iris_radius, Min(render_size - iris_radius, v))

\* int(render_size//2 - (render_size//2) * blink_state) and
\* int(render_size//2 + (render_size//2) * blink_state)
eyelid_top(blink_state) ==
    ((render_size \div 2) * 100 - (render_size \div 2) * blink_state) \div 100
eyelid_bottom(blink_state) ==
    ((render_size \div 2) * 100 + (render_size \div 2) * blink_state) \div 100

\* whether the row py is drawn on: every row of a fully open eye, the rows
\* between the lids of a blinking one, none when the lids meet
row_visible(blink_state, py) ==
    IF blink_state < 100
    THEN /\ eyelid_bottom(blink_state) > eyelid_top(blink_state)
         /\ py >= eyelid_top(blink_state)
         /\ py <= eyelid_bottom(blink_state)
    ELSE TRUE

\* (x - render_x)**2 + (y - render_y)**2 <= radius**2
in_disk(render_x, render_y, radius, px, py) ==
    (px - render_x) * (px - render_x) + (py - render_y) * (py - render_y)
        <= radius * radius

\* [int(c * 0.3) for c in eye_color]
glow_color(eye_color) == [k \in 1..3 |-> (eye_color[k] * 3) \div 10]

\* img_array[py, px] after drawing: glow, then iris, then pupil over the
\* zeroed buffer
img_pixel(render_x, render_y, blink_state, eye_color, px, py) ==
    IF ~row_visible(blink_state, py) THEN <<0, 0, 0>>
    ELSE IF in_disk(render_x, render_y, pupil_radius, px, py) THEN <<255, 255, 255>>
    ELSE IF in_disk(render_x, render_y, iris_radius, px, py) THEN eye_color
    ELSE IF in_disk(render_x, render_y, iris_radius + glow_size, px, py)
    THEN glow_color(eye_color)
    ELSE <<0, 0, 0>>

(***************************************************************************)
(* Blinking: the blink step of display_thread_func and the blink script    *)
(* animation_4_blinking.  Blink values are in hundredths (100 = open,      *)
(* 0 = closed); script times are in milliseconds.                          *)
(***************************************************************************)
\* A variant of the blink step without lines 835-837: a closing eye is never
\* stopped at 0.  C19_BlinkValuesInRange tells it from blink_step.
blink_step_no_floor(s, due, delay) ==
    LET s1 == IF ~s.is_blinking /\ due
              THEN [s EXCEPT !.is_blinking = TRUE, !.blink_state = 100,
                             !.blink_direction = 0 - 1]
              ELSE s
    IN IF ~s1.is_blinking THEN s1
       ELSE IF s1.blink_direction = 0 - 1
       THEN [s1 EXCEPT !.blink_state = @ - 25]
       ELSE LET opened == s1.blink_state + 20
            IN IF opened >= 100
               THEN [s1 EXCEPT !.blink_state = 100, !.is_blinking = FALSE,
                               !.since_blink = 0, !.next_blink_delay = delay]
               ELSE [s1 EXCEPT !.blink_state = opened]

\* A variant of the blink step that opens the eye as fast as it closes it, by
\* 0.25 per tick.  C37_BlinkCompletes tells it from blink_step.
blink_step_opening_as_closing(s, due, delay) ==
    LET s1 == IF ~s.is_blinking /\ due
              THEN [s EXCEPT !.is_blinking = TRUE, !.blink_state = 100,
                             !.blink_direction = 0 - 1]
              ELSE s
    IN IF ~s1.is_blinking THEN s1
       ELSE IF s1.blink_direction = 0 - 1
       THEN LET closed == s1.blink_state - 25
            IN IF closed <= 0
               THEN [s1 EXCEPT !.blink_state = 0, !.blink_direction = 1]
               ELSE [s1 EXCEPT !.blink_state = closed]
       ELSE LET opened == s1.blink_state + 25
            IN IF opened >= 100
               THEN [s1 EXCEPT !.blink_state = 100, !.is_blinking = FALSE,
                               !.since_blink = 0, !.next_blink_delay = delay]
               ELSE [s1 EXCEPT !.blink_state = opened]

\* display_thread_func, lines 821-846: start a blink when one is due, close
\* by 0.25 per tick down to 0.0, then open by 0.2 per tick up to 1.0; delay
\* is what np.random.uniform(3, 8) returns when the blink ends.
blink_step(s, due, delay) ==
    LET s1 == IF ~s.is_blinking /\ due
              THEN [s EXCEPT !.is_blinking = TRUE, !.blink_state = 100,
                             !.blink_direction = 0 - 1]
              ELSE s
    IN IF ~s1.is_blinking THEN s1
       ELSE IF s1.blink_direction = 0 - 1
       THEN LET closed == s1.blink_state - 25
            IN IF closed <= 0
               THEN [s1 EXCEPT !.blink_state = 0, !.blink_direction = 1]
               ELSE [s1 EXCEPT !.blink_state = closed]
       ELSE LET opened == s1.blink_state + 20
            IN IF opened >= 100
               THEN [s1 EXCEPT !.blink_state = 100, !.is_blinking = FALSE,
                               !.since_blink = 0, !.next_blink_delay = delay]
               ELSE [s1 EXCEPT !.blink_state = opened]

\* animation_4_blinking: blink_duration 0.25 s, hold_duration 0.15 s, 2 cycles
blink_duration == 250
hold_duration == 150
cycles == 2
right_blink_time == blink_duration + hold_duration + blink_duration
left_blink_time == blink_duration + hold_duration + blink_duration
cycle_time == right_blink_time + left_blink_time
total_time == cycles * cycle_time

\* one eye's blink phase at the time phase_t within its close-hold-open span
eye_blink_phase(phase_t) ==
    IF phase_t < blink_duration
    THEN 100 - (phase_t * 100) \div blink_duration
    ELSE IF phase_t < blink_duration + hold_duration
    THEN 0
    ELSE ((phase_t - blink_duration - hold_duration) * 100) \div blink_duration

\* animation_4_blinking(t): the blink states the script stores, the right
\* eye blinking first and the left eye after it; once the script has
\* finished (t >= total_time) it stores nothing and the old values stay.
animation_4_blinking(anim, t) ==
    IF t >= total_time THEN anim
    ELSE LET cycle_t == t % cycle_time
         IN IF cycle_t < right_blink_time
            THEN [left_blink_state |-> 100,
                  right_blink_state |-> eye_blink_phase(cycle_t)]
            ELSE [left_blink_state |-> eye_blink_phase(cycle_t - right_blink_time),
                  right_blink_state |-> 100]

\* idle_animations.update(), which update_idle_animation calls at line 670:
\* it runs the current script at its time t; the script is the blink script.
script_update(anim, t) == animation_4_blinking(anim, t)

\* update_idle_animation, lines 685-688: the blink states of the script
\* override those of the tracker
copy_script_blink(s, anim) ==
    [s EXCEPT !.left_blink_state = anim.left_blink_state,
              !.right_blink_state = anim.right_blink_state]

(***************************************************************************)
(* The idle scripts that have a duration of their own.  t is in            *)
(* milliseconds; each operator gives <<left_target_pos, right_target_pos>> *)
(* as the script sets them, offsets being rounded down to 1/Scale px.      *)
(* scan_cycle_time, scan_total_time, edge_hold_duration and arch_cycle_time *)
(* are the scripts' own cycle_time, total_time, hold_duration, cycle_time. *)
(***************************************************************************)
\* both targets at the offset (in 1/Scale px) from the display centre
both_at(offset_x, offset_y) ==
    LET pos == <<center_pos[1] + offset_x, center_pos[2] + offset_y>>
    IN <<pos, pos>>

\* animation_3_vertical_scan_random_x; half is the side picked once
animation_3_vertical_scan_random_x(t, half) ==
    LET scan_range == 80
        hold_time == 1000
        move_time == 250
        scan_cycle_time == 2 * (move_time + hold_time)
        scan_total_time == 3 * scan_cycle_time
        offset_x == IF half = "left" THEN 0 - 40 ELSE 40
        cycle_t == t % scan_cycle_time
        offset_y ==
            IF cycle_t < move_time
            THEN 0 - (scan_range * Scale * cycle_t) \div move_time
            ELSE IF cycle_t < move_time + hold_time
            THEN 0 - scan_range * Scale
            ELSE IF cycle_t < 2 * move_time + hold_time
            THEN 0 - (scan_range * Scale
                        * (move_time - (cycle_t - move_time - hold_time)))
                       \div move_time
            ELSE 0
    IN IF t >= scan_total_time THEN both_at(0, 0)
       ELSE both_at(offset_x * Scale, offset_y)

\* A variant of animation_5_hate_eyes without the test of lines 299-305: the
\* eyes are held at the top-side edge for good.  C24_ScriptsEndAtCentre
\* tells it from animation_5_hate_eyes.
animation_5_hate_eyes_held(t) ==
    LET roll_duration == 1000
        slide_duration == 1000
    IN IF t < roll_duration
       THEN both_at(0, 0 - (80 * Scale * t) \div roll_duration)
       ELSE IF t < roll_duration + slide_duration
       THEN both_at((60 * Scale * (t - roll_duration)) \div slide_duration,
                    0 - 80 * Scale)
       ELSE both_at(60 * Scale, 0 - 80 * Scale)

\* animation_5_hate_eyes
animation_5_hate_eyes(t) ==
    LET roll_duration == 1000
        slide_duration == 1000
        edge_hold_duration == 4000
        total_duration == roll_duration + slide_duration + edge_hold_duration
    IN IF t >= total_duration THEN both_at(0, 0)
       ELSE IF t < roll_duration
       THEN both_at(0, 0 - (80 * Scale * t) \div roll_duration)
       ELSE IF t < roll_duration + slide_duration
       THEN both_at((60 * Scale * (t - roll_duration)) \div slide_duration,
                    0 - 80 * Scale)
       ELSE both_at(60 * Scale, 0 - 80 * Scale)

\* animation_7_arch_movement
animation_7_arch_movement(t) ==
    LET arch_radius == 100
        side_hold_time == 800
        move_time == 200
        arch_cycle_time == 2 * (move_time + side_hold_time)
        total_arch_time == 2 * arch_cycle_time
        return_duration == 500
        total_duration == total_arch_time + return_duration
        high_up == 0 - (arch_radius * 3 * Scale) \div 10
        cycle_t == t % arch_cycle_time
    IN IF t >= total_duration THEN both_at(0, 0)
       ELSE IF t < total_arch_time
       THEN IF cycle_t < move_time
            THEN both_at((arch_radius * Scale * (2 * cycle_t - move_time))
                             \div move_time, high_up)
            ELSE IF cycle_t < move_time + side_hold_time
            THEN both_at(arch_radius * Scale, high_up)
            ELSE IF cycle_t < 2 * move_time + side_hold_time
            THEN both_at((arch_radius * Scale
                            * (move_time - 2 * (cycle_t - move_time - side_hold_time)))
                             \div move_time, high_up)
            ELSE both_at(0 - arch_radius * Scale, high_up)
       ELSE both_at(0 - (arch_radius * Scale
                           * (return_duration - (t - total_arch_time)))
                        \div return_duration, 0)

\* the script numbered script (3, 5 or 7) at the time t
script_targets(script, t, half) ==
    IF script = 3 THEN animation_3_vertical_scan_random_x(t, half)
    ELSE IF script = 5 THEN animation_5_hate_eyes(t)
    ELSE animation_7_arch_movement(t)

\* total_time of animation 3 and total_duration of animations 5 and 7, in ms
script_duration(script) ==
    IF script = 3 THEN 3 * (2 * (250 + 1000))
    ELSE IF script = 5 THEN 1000 + 1000 + 4000
    ELSE 2 * (2 * (200 + 800)) + 500

(***************************************************************************)
(* eye_template.create_eye_image: the renderer with a dynamic iris radius. *)
(* Its masks, for the default (normal) pupil and pupil_size_factor 1.0.    *)
(***************************************************************************)
\* EYE_CONFIG['edge_highlight']['width']
highlight_width == 2

\* int(max(iris_radius, min(render_size - iris_radius, int(v))))
template_render_coord(v, radius) == Max(radius, Min(render_size - radius, v))

\* eyelid_top = render_y - iris_radius + iris_radius * (1 - blink_state) and
\* eyelid_bottom = render_y + iris_radius - iris_radius * (1 - blink_state),
\* in hundredths of a pixel
template_eyelid_top(render_y, radius, blink_state) ==
    (render_y - radius) * 100 + radius * (100 - blink_state)
template_eyelid_bottom(render_y, radius, blink_state) ==
    (render_y + radius) * 100 - radius * (100 - blink_state)

\* (y >= eyelid_top) & (y <= eyelid_bottom) while blinking; every row of a
\* fully open eye
template_row_visible(render_y, radius, blink_state, py) ==
    IF blink_state < 100
    THEN /\ py * 100 >= template_eyelid_top(render_y, radius, blink_state)
         /\ py * 100 <= template_eyelid_bottom(render_y, radius, blink_state)
    ELSE TRUE

\* pupil_radius = int(int(iris_radius * 0.8) * 1.0), pupil_width =
\* int(pupil_radius * 0.2), pupil_height = int(pupil_radius * 1.0)
template_pupil_radius(radius) == (radius * 8) \div 10
template_pupil_width(radius) == (template_pupil_radius(radius) * 2) \div 10
template_pupil_height(radius) == template_pupil_radius(radius)

mask_glow(render_x, render_y, radius, blink_state, px, py) ==
    /\ in_disk(render_x, render_y, radius + glow_size, px, py)
    /\ template_row_visible(render_y, radius, blink_state, py)

\* inner_edge**2 <= dist_squared <= outer_edge**2, the edges being
\* iris_radius -/+ highlight_width/2
mask_highlight(render_x, render_y, radius, blink_state, px, py) ==
    LET dist_squared == (px - render_x) * (px - render_x)
                            + (py - render_y) * (py - render_y)
        outer_edge == radius + highlight_width \div 2
        inner_edge == radius - highlight_width \div 2
    IN /\ dist_squared >= inner_edge * inner_edge
       /\ dist_squared <= outer_edge * outer_edge
       /\ template_row_visible(render_y, radius, blink_state, py)

mask_iris(render_x, render_y, radius, blink_state, px, py) ==
    /\ in_disk(render_x, render_y, radius, px, py)
    /\ template_row_visible(render_y, radius, blink_state, py)

\* (x - render_x)**2 / pupil_width**2 + (y - render_y)**2 / pupil_height**2 <= 1
mask_pupil(render_x, render_y, radius, blink_state, px, py) ==
    LET pw == template_pupil_width(radius)
        ph == template_pupil_height(radius)
    IN /\ (px - render_x) * (px - render_x) * ph * ph
            + (py - render_y) * (py - render_y) * pw * pw <= pw * pw * ph * ph
       /\ template_row_visible(render_y, radius, blink_state, py)

\* A variant of rgb565 that keeps five bits of green as of red and blue.
\* C13_Rgb565 tells it from rgb565.
rgb565_green_5bit(rgb) ==
    ((rgb[1] \div 8) * 2048 + (rgb[2] \div 8) * 32 + (rgb[3] \div 8)) % 65536

\* (r >> 3) << 11 | (g >> 2) << 5 | (b >> 3) on uint16
rgb565(rgb) ==
    ((rgb[1] \div 8) * 2048 + (rgb[2] \div 4) * 32 + (rgb[3] \div 8)) % 65536

\* astype('>u2').tobytes(): the high byte first
rgb565_bytes(rgb) == <<rgb565(rgb) \div 256, rgb565(rgb) % 256>>

\* The bitwise operators of numpy and Python on non-negative integers
RECURSIVE BitAnd(_, _)
BitAnd(a, b) ==
    IF a = 0 \/ b = 0 THEN 0
    ELSE (a % 2) * (b % 2) + 2 * BitAnd(a \div 2, b \div 2)

RECURSIVE BitOr(_, _)
BitOr(a, b) ==
    IF a = 0 THEN b
    ELSE IF b = 0 THEN a
    ELSE (IF a % 2 = 1 \/ b % 2 = 1 THEN 1 ELSE 0)
             + 2 * BitOr(a \div 2, b \div 2)

\* a << k and a >> k on uint16
ShiftLeft(a, k) == (a * 2 ^ k) % 65536
ShiftRight(a, k) == a \div 2 ^ k

\* A variant of display_numpy_rgb565 that masks green with 0xF8 as it does
\* red.  C39_PackingsAgree tells it from display_numpy_rgb565.
display_numpy_rgb565_green_f8(rgb) ==
    BitOr(BitOr(ShiftLeft(BitAnd(rgb[1], 248), 8),
                ShiftLeft(BitAnd(rgb[2], 248), 3)),
          ShiftRight(rgb[3], 3))

\* FastGC9A01.display_numpy of main_ultra.py (and GC9A01.image of
\* test_gc9a01.py): ((r & 0xF8) << 8) | ((g & 0xFC) << 3) | (b >> 3)
display_numpy_rgb565(rgb) ==
    BitOr(BitOr(ShiftLeft(BitAnd(rgb[1], 248), 8),
                ShiftLeft(BitAnd(rgb[2], 252), 3)),
          ShiftRight(rgb[3], 3))

\* high_bytes = (rgb565 >> 8).astype(np.uint8), low_bytes = rgb565 & 0xFF,
\* interleaved with the high byte at index 0
display_numpy_pixels(rgb) ==
    <<ShiftRight(display_numpy_rgb565(rgb), 8) % 256,
      BitAnd(display_numpy_rgb565(rgb), 255)>>

\* The number of bytes of an encoded frame: two for each pixel of the buffer
frame_length == render_size * render_size * Len(rgb565_bytes(<<0, 0, 0>>))

\* The pixels of the buffer the model follows.
SamplePixels == {<<px, py>> : px \in {54, 55, 120, 186}, py \in {29, 120}}

\* The bytes create_eye_image renders for its arguments, at the pixels
\* followed.
rendered(eye_x, eye_y, blink_state, eye_color) ==
    [p \in SamplePixels |->
        rgb565_bytes(img_pixel(render_coord(eye_x), render_coord(eye_y),
                               blink_state, eye_color, p[1], p[2]))]

cached_keys(cache) == {cache[i][1] : i \in 1..Len(cache)}

\* The value stored under key: eye_cache[cache_key]
stored(cache, key) ==
    LET i == CHOOSE i \in 1..Len(cache) : cache[i][1] = key IN cache[i][2]

\* A variant of create_eye_image that renews an entry on a hit (moves it to
\* the end, as an LRU cache would).  C11_HitLeavesCacheUnchanged tells it
\* from create_eye_image.
create_eye_image_move_to_end(cache, eye_x, eye_y, blink_state, eye_color) ==
    LET key == cache_key(eye_x, eye_y, blink_state, eye_color)
    IN IF key \in cached_keys(cache)
       THEN Append(SelectSeq(cache, LAMBDA e : e[1] # key), <<key, stored(cache, key)>>)
       ELSE LET kept == IF Len(cache) >= cache_size THEN Tail(cache) ELSE cache
            IN Append(kept, <<key, rendered(eye_x, eye_y, blink_state, eye_color)>>)

\* A variant of create_eye_image that makes room with dict.popitem(), which
\* removes the entry inserted last.  C10_CacheBound tells it from
\* create_eye_image.
create_eye_image_popitem(cache, eye_x, eye_y, blink_state, eye_color) ==
    LET key == cache_key(eye_x, eye_y, blink_state, eye_color)
    IN IF key \in cached_keys(cache) THEN cache
       ELSE LET kept == IF Len(cache) >= cache_size
                        THEN SubSeq(cache, 1, Len(cache) - 1) ELSE cache
            IN Append(kept, <<key, rendered(eye_x, eye_y, blink_state, eye_color)>>)

\* create_eye_image: the cache it leaves.  On a hit nothing changes; on a
\* miss the first key of a full cache is removed (next(iter(eye_cache)))
\* and the new entry is added at the end.
create_eye_image(cache, eye_x, eye_y, blink_state, eye_color) ==
    LET key == cache_key(eye_x, eye_y, blink_state, eye_color)
    IN IF key \in cached_keys(cache) THEN cache
       ELSE LET kept == IF Len(cache) >= cache_size THEN Tail(cache) ELSE cache
            IN Append(kept, <<key, rendered(eye_x, eye_y, blink_state, eye_color)>>)

\* create_eye_image: the bytes it returns, the stored ones on a hit and the
\* freshly rendered ones on a miss.
create_eye_image_returns(cache, eye_x, eye_y, blink_state, eye_color) ==
    LET key == cache_key(eye_x, eye_y, blink_state, eye_color)
    IN IF key \in cached_keys(cache) THEN stored(cache, key)
       ELSE rendered(eye_x, eye_y, blink_state, eye_color)

(***************************************************************************)
(* smooth_eye_movement                                                     *)
(*                                                                         *)
(* The code computes current + (target - current) * speed in doubles: the  *)
(* sum is rounded to the nearest representable number.  Here a coordinate  *)
(* is a whole number of units in the last place (all values lie in one     *)
(* binade, where the representable numbers are evenly spaced), a speed is  *)
(* a fraction <<num, den>>, and the sum is rounded to the nearest whole    *)
(* number, a half to the even neighbour.  In doubles, from 120.0 towards   *)
(* 180.0 at speed 0.08, the 400th step reaches 179.99999999999983 (six     *)
(* units below 180.0) and every later step returns that value.             *)
(***************************************************************************)
\* n / d rounded to the nearest integer, a half to the even neighbour
RoundHalfEven(n, d) ==
    LET q == n \div d
        r == n % d
    IN IF 2 * r < d THEN q
       ELSE IF 2 * r > d THEN q + 1
       ELSE IF q % 2 = 0 THEN q ELSE q + 1

\* A variant of smooth_axis with the difference taken the wrong way round.
\* C14_SmoothingContracts tells it from smooth_axis.
smooth_axis_reversed(current, target, speed) ==
    RoundHalfEven(current * speed[2] + (current - target) * speed[1], speed[2])

\* current + (target - current) * speed, for one axis of one eye
smooth_axis(current, target, speed) ==
    RoundHalfEven(current * speed[2] + (target - current) * speed[1], speed[2])

\* smooth_eye_movement: the current positions of both eyes it leaves
smooth_eye_movement(s) ==
    [s EXCEPT
       !.current_left_eye =
           <<smooth_axis(s.current_left_eye[1], s.target_left_eye[1], s.eye_movement_speed),
             smooth_axis(s.current_left_eye[2], s.target_left_eye[2], s.eye_movement_speed)>>,
       !.current_right_eye =
           <<smooth_axis(s.current_right_eye[1], s.target_right_eye[1], s.eye_movement_speed),
             smooth_axis(s.current_right_eye[2], s.target_right_eye[2], s.eye_movement_speed)>>]

(***************************************************************************)
(* _update_both_displays.  The eye positions are in tenths of a pixel and  *)
(* blink values in hundredths; a recorded position is the triple of the    *)
(* two coordinates on the 5-pixel grid and the blink in tenths.            *)
(***************************************************************************)
\* (round(x / 5) * 5, round(y / 5) * 5, round(blink_state * 10) / 10)
rounded_pos(eye, blink_state) ==
    <<RoundHalfEven(eye[1], 50) * 5, RoundHalfEven(eye[2], 50) * 5,
      blink_key(blink_state)>>

\* lines 872-874
left_changed(d) ==
    rounded_pos(d.current_left_eye, d.blink_state) # d.last_rendered_pos_left
right_changed(d) ==
    rounded_pos(d.current_right_eye, d.blink_state) # d.last_rendered_pos_right
blink_changed(d) == d.is_blinking /\ d.blink_state # d.last_blink_state

\* A variant of _update_both_displays that records each eye's position with
\* the blink value the eye is drawn with, the idle script's override in
\* Idle.  C35_WritesOnlyOnChange tells it from update_both_displays.
update_both_displays_per_eye_blink(d) ==
    LET left == rounded_pos(d.current_left_eye,
                            IF d.idle_mode THEN d.left_blink_state ELSE d.blink_state)
        right == rounded_pos(d.current_right_eye,
                             IF d.idle_mode THEN d.right_blink_state ELSE d.blink_state)
        write_left == left # d.last_rendered_pos_left \/ blink_changed(d)
        write_right == right # d.last_rendered_pos_right \/ blink_changed(d)
    IN [d |-> [d EXCEPT !.last_rendered_pos_left = IF write_left THEN left ELSE @,
                        !.last_rendered_pos_right = IF write_right THEN right ELSE @,
                        !.last_blink_state =
                            IF write_left \/ write_right THEN d.blink_state ELSE @],
        left |-> write_left,
        right |-> write_right]

\* _update_both_displays: the bookkeeping it leaves and, for each display,
\* whether it was written (lines 876-891 and 893-908).
update_both_displays(d) ==
    LET write_left == left_changed(d) \/ blink_changed(d)
        write_right == right_changed(d) \/ blink_changed(d)
    IN [d |-> [d EXCEPT !.last_rendered_pos_left =
                            IF write_left
                            THEN rounded_pos(d.current_left_eye, d.blink_state) ELSE @,
                        !.last_rendered_pos_right =
                            IF write_right
                            THEN rounded_pos(d.current_right_eye, d.blink_state) ELSE @,
                        !.last_blink_state =
                            IF left_changed(d) \/ right_changed(d) \/ blink_changed(d)
                            THEN d.blink_state ELSE @],
        left |-> write_left,
        right |-> write_right]

(***************************************************************************)
(* Render loop: update_eye_size_smoothly and update_eye_color.  eye holds  *)
(* the current colour (channels in thousandths) and the current size index *)
(* (in thousandths); s holds the targets.  Products are rounded to the     *)
(* nearest unit, ties to even.                                             *)
(***************************************************************************)
ColourScale == 10 * 100
IndexScale == 10 * 100

\* size_diff = target - current; if abs(size_diff) > 0.1: current +=
\* size_diff * 0.01, clamped to [0, total_eye_sizes - 1]
update_eye_size_smoothly(eye, s) ==
    LET size_diff == s.target_eye_size_index * IndexScale - eye.current_eye_size_index
        moved == eye.current_eye_size_index + RoundHalfEven(size_diff, 100)
    IN IF 10 * size_diff > IndexScale \/ 10 * size_diff < 0 - IndexScale
       THEN [eye EXCEPT !.current_eye_size_index =
                 Max(0, Min((total_eye_sizes - 1) * IndexScale, moved))]
       ELSE eye

\* current[i] += (target[i] - current[i]) * 0.05, clamped to [0, 255]
update_eye_color(eye, s) ==
    [eye EXCEPT !.current_eye_color =
        [i \in 1..3 |->
            LET diff == s.target_eye_color[i] * ColourScale - eye.current_eye_color[i]
            IN Max(0, Min(255 * ColourScale,
                          eye.current_eye_color[i] + RoundHalfEven(diff * 5, 100)))]]

(***************************************************************************)
(* The threads: camera_thread, display_thread_func and the main thread's   *)
(* stop().  loops holds the running flag, the place each thread is at, the *)
(* state of the two display handles and of the camera, what became of the  *)
(* frame of the render loop's last tick, and for each loop whether it has  *)
(* begun an iteration after the flag was cleared.                          *)
(***************************************************************************)
\* run_eye_tracker, lines 21-36: the handles are open, running is set and
\* both threads are started
InitLoops ==
    [ running |-> TRUE,
      stop_at |-> "waiting",
      camera_at |-> "while",
      render_at |-> "while",
      display1 |-> "open",
      display2 |-> "open",
      camera |-> "open",
      frame |-> "none",
      camera_late |-> FALSE,
      render_late |-> FALSE ]

\* A variant of stop that does not close the second display.
\* C25_OrderlyShutdown tells it from stop.
stop_leaking_display2(th) ==
    IF th.stop_at = "waiting"
    THEN [th EXCEPT !.running = FALSE, !.stop_at = "close_display1"]
    ELSE IF th.stop_at = "close_display1"
    THEN [th EXCEPT !.display1 = "closed", !.stop_at = "close_display2"]
    ELSE IF th.stop_at = "close_display2"
    THEN [th EXCEPT !.stop_at = "close_camera"]
    ELSE [th EXCEPT !.camera = "closed", !.stop_at = "stopped"]

\* stop, one statement at a time: running = False, display1.close(),
\* display2.close(), camera.close()
stop(th) ==
    IF th.stop_at = "waiting"
    THEN [th EXCEPT !.running = FALSE, !.stop_at = "close_display1"]
    ELSE IF th.stop_at = "close_display1"
    THEN [th EXCEPT !.display1 = "closed", !.stop_at = "close_display2"]
    ELSE IF th.stop_at = "close_display2"
    THEN [th EXCEPT !.display2 = "closed", !.stop_at = "close_camera"]
    ELSE [th EXCEPT !.camera = "closed", !.stop_at = "stopped"]

\* camera_thread, one step: the test of "while self.running", the capture of
\* a frame, the rest of the loop body, and the except clause with its
\* sleep.  raised tells whether the step raises an exception.
camera_thread(th, raised) ==
    IF th.camera_at = "while"
    THEN IF th.running
         THEN [th EXCEPT !.camera_at = "capture",
                         !.camera_late = @ \/ th.stop_at # "waiting"]
         ELSE [th EXCEPT !.camera_at = "done"]
    ELSE IF th.camera_at = "capture"
    THEN [th EXCEPT !.camera_at = IF raised \/ th.camera = "closed"
                                  THEN "except" ELSE "body"]
    ELSE IF th.camera_at = "body"
    THEN [th EXCEPT !.camera_at = IF raised THEN "except" ELSE "while"]
    ELSE [th EXCEPT !.camera_at = "while"]

\* A variant of display_thread_func that takes a frame from the acquisition
\* loop before each tick, waiting for the loop to have one.
\* C26_RenderNeverWaits tells it from display_thread_func.
display_thread_func_waiting(th, raised, changed) ==
    IF th.render_at = "while"
    THEN IF th.running
         THEN [th EXCEPT !.render_at = "tick",
                         !.render_late = @ \/ th.stop_at # "waiting"]
         ELSE [th EXCEPT !.render_at = "done"]
    ELSE IF th.render_at = "tick"
    THEN IF th.camera_at # "body" THEN th
         ELSE [th EXCEPT !.render_at = IF raised THEN "except" ELSE "write"]
    ELSE IF th.render_at = "write"
    THEN IF ~changed
         THEN [th EXCEPT !.render_at = "sleep"]
         ELSE IF raised \/ th.display1 = "closed" \/ th.display2 = "closed"
         THEN [th EXCEPT !.render_at = "except", !.frame = "dropped"]
         ELSE [th EXCEPT !.render_at = "sleep", !.frame = "written"]
    ELSE [th EXCEPT !.render_at = "while"]

\* A variant of display_thread_func without the except clause: an exception
\* ends the thread.  C27_WriteFailureDropsFrame tells it from
\* display_thread_func.
display_thread_func_uncaught(th, raised, changed) ==
    IF th.render_at = "while"
    THEN IF th.running
         THEN [th EXCEPT !.render_at = "tick",
                         !.render_late = @ \/ th.stop_at # "waiting"]
         ELSE [th EXCEPT !.render_at = "done"]
    ELSE IF th.render_at = "tick"
    THEN [th EXCEPT !.render_at = IF raised THEN "done" ELSE "write"]
    ELSE IF th.render_at = "write"
    THEN IF ~changed
         THEN [th EXCEPT !.render_at = "sleep"]
         ELSE IF raised \/ th.display1 = "closed" \/ th.display2 = "closed"
         THEN [th EXCEPT !.render_at = "done", !.frame = "dropped"]
         ELSE [th EXCEPT !.render_at = "sleep", !.frame = "written"]
    ELSE [th EXCEPT !.render_at = "while"]

\* display_thread_func, one step: the test of "while self.running", the
\* updates of the tick (lines 812-849), _update_both_displays (which writes
\* to the displays when changed: the eyes have moved or blink), the sleep
\* of 1/60 s, and the except clause with its sleep.  A write to a closed
\* display raises.
display_thread_func(th, raised, changed) ==
    IF th.render_at = "while"
    THEN IF th.running
         THEN [th EXCEPT !.render_at = "tick",
                         !.render_late = @ \/ th.stop_at # "waiting"]
         ELSE [th EXCEPT !.render_at = "done"]
    ELSE IF th.render_at = "tick"
    THEN [th EXCEPT !.render_at = IF raised THEN "except" ELSE "write"]
    ELSE IF th.render_at = "write"
    THEN IF ~changed
         THEN [th EXCEPT !.render_at = "sleep"]
         ELSE IF raised \/ th.display1 = "closed" \/ th.display2 = "closed"
         THEN [th EXCEPT !.render_at = "except", !.frame = "dropped"]
         ELSE [th EXCEPT !.render_at = "sleep", !.frame = "written"]
    ELSE [th EXCEPT !.render_at = "while"]

(***************************************************************************)
(* Passage of time                                                         *)
(***************************************************************************)
\* since_motion is compared with the settle window, motion_timeout (both
\* strictly) and idle_trigger_delay; idle_elapsed with idle_resume_delay.
since_motion_horizon ==
    SetMax(InitialTriggerDelays \cup RearmTriggerDelays
               \cup {settle_window, motion_timeout}) + 1
idle_elapsed_horizon == SetMax(ResumeDelays)

advance_clock(s) ==
    [s EXCEPT !.since_motion = Min(@ + 1, since_motion_horizon),
              !.since_face_detection = Min(@ + 1, face_detection_timeout + 1),
              !.since_face_following = Min(@ + 1, face_following_timeout + 1),
              !.idle_elapsed = IF @ = NoTime THEN NoTime
                               ELSE Min(@ + 1, idle_elapsed_horizon)]

(***************************************************************************)
(* Inputs                                                                  *)
(***************************************************************************)
\* detect_motion's results: no box, or two boxes of which the second is the
\* larger, with centre (160,120).
MotionInputs ==
    { <<>>,
      << <<100, 60, 40, 40>>, <<80, 30, 160, 180>> >> }

\* detect_face's results: no face, or a small and a larger face, the larger
\* of 120x120 with centre (160,120).
FaceInputs ==
    { <<>>,
      << <<500, 300, 60, 60>>, <<100, 60, 120, 120>> >> }

\* The positions an idle script hands back (get_current_positions).
IdleScriptPositions == {Px(200, 120)}

\* Arguments of create_eye_image: 118 and 120 share the cache coordinate
\* 120 and 123 has 125; blink states 1.0, 0.75 (key 0.8) and 0.25 (key 0.2).
EyeXInputs == {118, 120, 123}
EyeYInputs == {120}
BlinkInputs == {100, 75, 25}
ColourInputs == {base_eye_color}

\* Bounding boxes inside the 800x600 sensor frame: from a corner, the middle
\* or the last pixel, one pixel wide or reaching to the far edge; the whole
\* frame <<0, 0, 800, 600>> is among them.
FrameBoxes ==
    { b \in { <<x, y, w, h>> :
                 x \in {0, camera_width \div 2, camera_width - 1},
                 y \in {0, camera_height \div 2, camera_height - 1},
                 w \in {1, camera_width \div 2, camera_width},
                 h \in {1, camera_height \div 2, camera_height} } :
        b[1] + b[3] <= camera_width /\ b[2] + b[4] <= camera_height }

\* The boxes the adapters are driven with: the two corner pixels for motion,
\* the bottom right corner pixel for a face.
CornerMotionBoxes == { <<0, 0, 1, 1>>, <<camera_width - 1, camera_height - 1, 1, 1>> }
CornerFaceBoxes == { <<camera_width - 1, camera_height - 1, 1, 1>> }

\* Sensor frames (camera_width, camera_height) and motion boxes of 20x20 that
\* fit in each of them; <<10, 10, 20, 20>> is among the boxes.
FrameSizes == { <<100, 100>>, <<camera_width, camera_height>> }
MotionBoxInputs == { <<x, y, 20, 20>> : x, y \in {0, 10, 20, 30, 40, 50, 60, 70, 80} }

\* Arguments of the two renderers: eye positions at the margins of the
\* display and inside, blink phases from closed (0) to open (100), and iris
\* radii for eye_template.
RenderXInputs == {20, 60, 120, 220}
RenderYInputs == {20, 60, 120, 220}
RenderBlinkInputs == {0, 25, 50, 75, 100}
IrisRadiusInputs == {30, 50, 60}

\* The pixels of the buffer that are looked at: every tenth row and column
\* and the last ones.
BufferSamples ==
    LET Lines == {10 * k : k \in 0..((render_size - 1) \div 10)} \cup {render_size - 1}
    IN Lines \X Lines

\* What display_settings.create_eye_image draws: the clamped centre and the
\* sampled pixels that are not left at the zeroed background.
settings_drawn(eye_x, eye_y, blink_state, eye_color) ==
    [ center |-> <<render_coord(eye_x), render_coord(eye_y)>>,
      drawn |-> { p \in BufferSamples :
                    img_pixel(render_coord(eye_x), render_coord(eye_y),
                              blink_state, eye_color, p[1], p[2]) # <<0, 0, 0>> } ]

\* What eye_template.create_eye_image draws: the clamped centre and its four
\* masks over the sampled pixels.
template_drawn(eye_x, eye_y, blink_state, radius) ==
    LET render_x == template_render_coord(eye_x, radius)
        render_y == template_render_coord(eye_y, radius)
    IN [ center |-> <<render_x, render_y>>,
         glow |-> { p \in BufferSamples :
                      mask_glow(render_x, render_y, radius, blink_state, p[1], p[2]) },
         highlight |-> { p \in BufferSamples :
                      mask_highlight(render_x, render_y, radius, blink_state, p[1], p[2]) },
         iris |-> { p \in BufferSamples :
                      mask_iris(render_x, render_y, radius, blink_state, p[1], p[2]) },
         pupil |-> { p \in BufferSamples :
                      mask_pupil(render_x, render_y, radius, blink_state, p[1], p[2]) } ]

\* Render ticks between two blinks (next_blink_delay) and the times at which
\* the blink script is sampled: every 50 ms up to MaxScriptSteps steps, which
\* is past the end of the script.
BlinkDelays == {2, 3}
MaxScriptSteps == 53
ScriptTimes == { 50 * k : k \in 0..MaxScriptSteps }

\* detect_face's results with largest faces of three different areas (3600,
\* 14400 and 40000), and the number of detections that are followed.
FaceAreaInputs ==
    { <<>>,
      << <<300, 200, 60, 60>> >>,
      << <<500, 300, 60, 60>>, <<100, 60, 120, 120>> >>,
      << <<200, 100, 200, 200>> >> }
MaxArrivals == 7

\* detect_face's results for the colour and size of the eyes: no face, a
\* face below min_face_size (50x50), one between the limits (200x200) and
\* one above max_face_size (the whole frame); and the number of steps taken.
EyeFaceInputs ==
    { <<>>,
      << <<10, 10, 50, 50>> >>,
      << <<200, 100, 200, 200>> >>,
      << <<0, 0, camera_width, camera_height>> >> }
MaxEyeSteps == 5

\* The library start_random_animation picks from: the seven animations.
Scripts == 1..7

\* The scripts with a duration of their own and the times at which they are
\* sampled: every 50 ms up to MaxDurationSteps steps, past the longest
\* duration (7.5 s).
DurationScripts == {3, 5, 7}
MaxDurationSteps == 160
DurationScriptTimes == { 50 * k : k \in 0..MaxDurationSteps }

\* The cycles of camera_thread followed: enough for two face checks.
MaxCycles == 41

\* Number of calls followed on the object that holds the eye state too.
MaxOwnSteps == 3

\* What np.random.uniform(5, 10) returns twice in start_idle_mode: a trigger
\* delay near the top of the range with the shortest resume delay, and the
\* shortest trigger delay.
IdleCycleDraws == {[trigger |-> 9, resume |-> 5], [trigger |-> 5, resume |-> 6]}

\* Eye coordinates in tenths of a pixel: 120 is a grid point, 122.5 is
\* half-way between two (122.5 / 5 = 24.5 rounds to 24, so to 120) and 123
\* is on the next.
DisplayCoordInputs == {1200, 1225, 1230}
\* The blink overrides of the two eyes: both open (outside Idle), or one
\* closed by the alternating-blink script
OverrideInputs == {<<100, 100>>, <<0, 100>>, <<100, 0>>}
\* Colour and size index: at rest, and with a near face
LookInputs == {<<base_eye_color, neutral_eye_size_index>>,
               <<face_eye_color, total_eye_sizes - 1>>}

\* What np.random.uniform(3, 8) returns at lines 52 and 846, and the time a
\* render tick takes, both in the same unit of time.
BlinkCycleDelays == 3..8
TickSpans == {1, 2}

\* eye_movement_speed of main.py (0.08), movement_speed of
\* idle_animations.py (0.15), and the largest smoothing factor, 1
SpeedInputs == {<<8, 100>>, <<15, 100>>, <<1, 1>>}

\* How far, in units in the last place, a current coordinate starts from
\* its target.
MaxOffset == 40
\* Number of smooth_eye_movement calls followed.
MaxSmoothSteps == 12

\* Values of a channel of img_array (uint8)
ChannelInputs == {0, 3, 4, 7, 8, 128, 255}

\* Values of a channel given to both packings: those of ChannelInputs and
\* the values around the masks 0xF8 and 0xFC.
PackingInputs == ChannelInputs \cup {247, 248, 251, 252}

(***************************************************************************)
(* The state machine                                                       *)
(***************************************************************************)
InitTracker(trigger, resume) ==
    [ since_motion |-> 0,
      since_face_detection |-> 0,
      since_face_following |-> 0,
      idle_elapsed |-> NoTime,
      face_detection_counter |-> 0,
      face_detected |-> FALSE,
      face_following_mode |-> FALSE,
      current_face_center |-> None,
      idle_mode |-> FALSE,
      idle_animation_started |-> FALSE,
      idle_trigger_delay |-> trigger,
      idle_resume_delay |-> resume,
      target_left_eye |-> center_pos,
      target_right_eye |-> center_pos,
      motion_history |-> <<>>,
      face_sizes |-> <<>>,
      target_eye_size_index |-> neutral_eye_size_index,
      target_eye_color |-> base_eye_color ]

Init ==
    /\ \E trigger \in InitialTriggerDelays, resume \in InitialResumeDelays :
           tracker = InitTracker(trigger, resume)
    /\ camera_pc = "face_check"
    /\ eye_cache = <<>>
    /\ inserted_at = <<>>
    /\ n_inserts = 0
    /\ args = None
    /\ result = None
    /\ loops = InitLoops

CallUnchanged == UNCHANGED <<args, result>>
CacheUnchanged == UNCHANGED <<eye_cache, inserted_at, n_inserts, loops>> /\ CallUnchanged

\* camera_thread, first half of the loop body, on a cycle whose counter
\* reaches face_detection_interval: the detector's faces go to
\* update_face_detection.
FaceCheck ==
    /\ camera_pc = "face_check"
    /\ \E faces \in FaceInputs :
           tracker' = update_face_detection(tracker, faces)
    /\ camera_pc' = "update_eye_position"
    /\ CacheUnchanged

\* ... on a cycle whose counter is below the interval: no face check.
NoFaceCheck ==
    /\ camera_pc = "face_check"
    /\ camera_pc' = "update_eye_position"
    /\ UNCHANGED tracker
    /\ CacheUnchanged

\* camera_thread, second half of the loop body: the motion boxes of the
\* cycle go to update_eye_position.
PositionUpdate ==
    /\ camera_pc = "update_eye_position"
    /\ \E motion_boxes \in MotionInputs, draw \in Draws :
           tracker' = update_eye_position(tracker, motion_boxes, draw)
    /\ camera_pc' = "face_check"
    /\ CacheUnchanged

\* display_thread_func: the render loop's call of update_idle_animation,
\* at any point of the camera loop.
RenderTick ==
    /\ \E pos \in IdleScriptPositions :
           tracker' = update_idle_animation(tracker, <<pos, pos>>)
    /\ UNCHANGED camera_pc
    /\ CacheUnchanged

\* One second passes.
Tick ==
    /\ tracker' = advance_clock(tracker)
    /\ UNCHANGED camera_pc
    /\ CacheUnchanged

Next == FaceCheck \/ NoFaceCheck \/ PositionUpdate \/ RenderTick \/ Tick

Spec == Init /\ [][Next]_vars

\* One call of create_eye_image on the cache.  inserted_at records, for every
\* key ever inserted, the number of its latest insertion.
CreateEyeImage ==
    /\ n_inserts < MaxInserts
    /\ \E eye_x \in EyeXInputs, eye_y \in EyeYInputs,
          blink_state \in BlinkInputs, eye_color \in ColourInputs :
           LET key == cache_key(eye_x, eye_y, blink_state, eye_color)
           IN /\ eye_cache' = create_eye_image(eye_cache, eye_x, eye_y,
                                               blink_state, eye_color)
              /\ IF key \in cached_keys(eye_cache)
                 THEN UNCHANGED <<inserted_at, n_inserts>>
                 ELSE /\ n_inserts' = n_inserts + 1
                      /\ inserted_at' =
                             [k \in DOMAIN inserted_at \cup {key} |->
                                 IF k = key THEN n_inserts + 1 ELSE inserted_at[k]]
    /\ UNCHANGED <<tracker, camera_pc, loops>>
    /\ CallUnchanged

NextCache == CreateEyeImage

SpecCache == Init /\ [][NextCache]_vars

TrackerUnchanged == UNCHANGED <<tracker, camera_pc>>

\* The encoder of create_eye_image applied to one pixel of img_array.
EncodePixel ==
    /\ \E r \in ChannelInputs, g \in ChannelInputs, b \in ChannelInputs :
           /\ args' = <<r, g, b>>
           /\ result' = rgb565_bytes(<<r, g, b>>)
    /\ TrackerUnchanged
    /\ UNCHANGED <<eye_cache, inserted_at, n_inserts, loops>>

\* One render tick's smooth_eye_movement, from eyes that stand off their
\* (fixed) targets: args is the eye state before the call, result the
\* number of calls made.
SmoothStart ==
    /\ args = None
    /\ \E speed \in SpeedInputs, dx \in (0 - MaxOffset)..MaxOffset, dy \in {0 - 7, 0, 13} :
           args' = [ eye_movement_speed |-> speed,
                     target_left_eye |-> <<0, 0>>,
                     target_right_eye |-> <<0, 0>>,
                     current_left_eye |-> <<dx, dy>>,
                     current_right_eye |-> <<0 - dx, dy>> ]
    /\ result' = 0
    /\ TrackerUnchanged
    /\ UNCHANGED <<eye_cache, inserted_at, n_inserts, loops>>

SmoothEyeMovement ==
    /\ args # None
    /\ result < MaxSmoothSteps
    /\ args' = smooth_eye_movement(args)
    /\ result' = result + 1
    /\ TrackerUnchanged
    /\ UNCHANGED <<eye_cache, inserted_at, n_inserts, loops>>

NextSmooth == SmoothStart \/ SmoothEyeMovement

SpecSmooth == Init /\ [][NextSmooth]_vars

\* The two adapters fed with boxes at the corners of the sensor frame: a
\* face check with one face, update_eye_position with one motion box or
\* none, and time passing until a face may be followed.
AdapterFaceCheck ==
    /\ \E box \in CornerFaceBoxes : tracker' = update_face_detection(tracker, <<box>>)
    /\ UNCHANGED camera_pc
    /\ CacheUnchanged

AdapterPositionUpdate ==
    /\ \E motion_boxes \in {<<>>} \cup {<<box>> : box \in CornerMotionBoxes}, draw \in Draws :
           tracker' = update_eye_position(tracker, motion_boxes, draw)
    /\ UNCHANGED camera_pc
    /\ CacheUnchanged

AdapterTick ==
    /\ tracker.since_motion <= settle_window
    /\ tracker' = advance_clock(tracker)
    /\ UNCHANGED camera_pc
    /\ CacheUnchanged

NextAdapter == AdapterFaceCheck \/ AdapterPositionUpdate \/ AdapterTick

SpecAdapter == Init /\ [][NextAdapter]_vars

\* The motion branch of update_eye_position on one box: args holds the frame
\* size and the box, result the display position computed from it.
MapMotionBox ==
    /\ \E frame \in FrameSizes, box \in MotionBoxInputs :
          /\ args' = <<frame, box>>
          /\ result' = MapToDisplayIn(BoxCenter(Largest(<<box>>)), frame[1], frame[2])
    /\ TrackerUnchanged
    /\ UNCHANGED <<eye_cache, inserted_at, n_inserts, loops>>

NextMapping == MapMotionBox

SpecMapping == Init /\ [][NextMapping]_vars

\* One call of each renderer on the same arguments, into an empty cache.
RenderEye ==
    /\ args = None
    /\ \E eye_x \in RenderXInputs, eye_y \in RenderYInputs,
          blink_state \in RenderBlinkInputs, radius \in IrisRadiusInputs :
          /\ args' = [eye_x |-> eye_x, eye_y |-> eye_y,
                      blink_state |-> blink_state, iris_radius |-> radius]
          /\ result' = [settings |-> settings_drawn(eye_x, eye_y, blink_state,
                                                    base_eye_color),
                        template |-> template_drawn(eye_x, eye_y, blink_state,
                                                    radius)]
    /\ TrackerUnchanged
    /\ UNCHANGED <<eye_cache, inserted_at, n_inserts, loops>>

NextRender == RenderEye

SpecRender == Init /\ [][NextRender]_vars

\* The blink fields of the tracker after __init__ (lines 48-56); since_blink
\* counts the render ticks since last_blink_time.
BlinkStart ==
    /\ args = None
    /\ \E delay \in BlinkDelays :
          args' = [is_blinking |-> FALSE, blink_state |-> 100,
                   blink_direction |-> 0 - 1, since_blink |-> 0,
                   next_blink_delay |-> delay,
                   left_blink_state |-> 100, right_blink_state |-> 100]
    /\ result' = 0
    /\ TrackerUnchanged
    /\ UNCHANGED <<eye_cache, inserted_at, n_inserts, loops>>

\* A render tick outside idle mode: the blink step.
BlinkTick ==
    /\ args # None
    /\ \E delay \in BlinkDelays :
          LET s == [args EXCEPT !.since_blink = Min(@ + 1, SetMax(BlinkDelays))]
          IN args' = blink_step(s, s.since_blink >= s.next_blink_delay, delay)
    /\ result' = 0
    /\ TrackerUnchanged
    /\ UNCHANGED <<eye_cache, inserted_at, n_inserts, loops>>

\* A render tick in idle mode while the blink script runs: the script is
\* updated at its time t, its blink states are copied, then the blink step.
IdleScriptBlinkTick ==
    /\ args # None
    /\ \E delay \in BlinkDelays, t \in ScriptTimes :
          LET anim == script_update(
                          [left_blink_state |-> args.left_blink_state,
                           right_blink_state |-> args.right_blink_state], t)
              s == [copy_script_blink(args, anim) EXCEPT
                       !.since_blink = Min(@ + 1, SetMax(BlinkDelays))]
          IN /\ args' = blink_step(s, s.since_blink >= s.next_blink_delay, delay)
             /\ result' = t
    /\ TrackerUnchanged
    /\ UNCHANGED <<eye_cache, inserted_at, n_inserts, loops>>

NextBlink == BlinkStart \/ BlinkTick \/ IdleScriptBlinkTick

SpecBlink == Init /\ [][NextBlink]_vars

\* A face check; args records the areas of the largest faces in the order
\* in which they arrived.
FaceArrives ==
    /\ Len(args) < MaxArrivals
    /\ \E faces \in FaceAreaInputs :
          /\ tracker' = update_face_detection(tracker, faces)
          /\ args' = IF Len(faces) > 0
                     THEN Append(args, BoxArea(Largest(faces)))
                     ELSE args
    /\ UNCHANGED <<camera_pc, result>>
    /\ UNCHANGED <<eye_cache, inserted_at, n_inserts, loops>>

NextFaceSizes == FaceArrives

SpecFaceSizes == Init /\ [][NextFaceSizes]_vars

\* The colour and size of the eyes after __init__ (lines 104 and 121).
EyeStart ==
    /\ args = None
    /\ args' = [current_eye_color |-> [i \in 1..3 |-> base_eye_color[i] * ColourScale],
                current_eye_size_index |-> neutral_eye_size_index * IndexScale]
    /\ result' = 0
    /\ TrackerUnchanged
    /\ UNCHANGED <<eye_cache, inserted_at, n_inserts, loops>>

\* A face check of the acquisition loop.
EyeFaceCheck ==
    /\ args # None
    /\ result < MaxEyeSteps
    /\ \E faces \in EyeFaceInputs : tracker' = update_face_detection(tracker, faces)
    /\ result' = result + 1
    /\ UNCHANGED <<camera_pc, args>>
    /\ UNCHANGED <<eye_cache, inserted_at, n_inserts, loops>>

\* A render tick: update_eye_size_smoothly, then update_eye_color.
EyeRenderTick ==
    /\ args # None
    /\ result < MaxEyeSteps
    /\ args' = update_eye_color(update_eye_size_smoothly(args, tracker), tracker)
    /\ result' = result + 1
    /\ TrackerUnchanged
    /\ UNCHANGED <<eye_cache, inserted_at, n_inserts, loops>>

\* Time passes until the face timeout has run out.
EyePause ==
    /\ args # None
    /\ tracker.since_face_detection <= face_detection_timeout
    /\ tracker' = advance_clock(tracker)
    /\ UNCHANGED <<camera_pc, args, result>>
    /\ UNCHANGED <<eye_cache, inserted_at, n_inserts, loops>>

NextEyeState == EyeStart \/ EyeFaceCheck \/ EyeRenderTick \/ EyePause

SpecEyeState == Init /\ [][NextEyeState]_vars

\* The idle episodes.  result keeps, for the episode entered last, its
\* number (counted up to 2), the number of invocations of
\* start_random_animation (counted up to 2), the script picked last and
\* whether the script has been updated.
new_episode(r) ==
    [episode |-> IF r = None THEN 1 ELSE Min(r.episode + 1, 2),
     selections |-> 0, script |-> 0, updated |-> FALSE]

IdlePositionUpdate ==
    /\ \E motion_boxes \in MotionInputs, draw \in Draws :
           tracker' = update_eye_position(tracker, motion_boxes, draw)
    /\ result' = IF ~tracker.idle_mode /\ tracker'.idle_mode
                 THEN new_episode(result) ELSE result
    /\ UNCHANGED <<camera_pc, args>>
    /\ UNCHANGED <<eye_cache, inserted_at, n_inserts, loops>>

IdleRenderTick ==
    /\ \E pos \in IdleScriptPositions, script \in Scripts :
          /\ tracker' = update_idle_animation(tracker, <<pos, pos>>)
          /\ result' = IF selects_script(tracker)
                       THEN [result EXCEPT !.selections = Min(@ + 1, 2),
                                           !.script = script,
                                           !.updated = TRUE]
                       ELSE IF updates_script(tracker)
                       THEN [result EXCEPT !.updated = TRUE]
                       ELSE result
    /\ UNCHANGED <<camera_pc, args>>
    /\ UNCHANGED <<eye_cache, inserted_at, n_inserts, loops>>

IdleClock ==
    /\ tracker' = advance_clock(tracker)
    /\ UNCHANGED <<camera_pc, args, result>>
    /\ UNCHANGED <<eye_cache, inserted_at, n_inserts, loops>>

NextIdle == IdlePositionUpdate \/ IdleRenderTick \/ IdleClock

SpecIdle == Init /\ [][NextIdle]_vars

\* One update of a script with a duration of its own: args holds the
\* script, its elapsed time and the side animation 3 picked; result the
\* targets the script sets.
RunScript ==
    /\ \E script \in DurationScripts, t \in DurationScriptTimes,
          half \in {"left", "right"} :
          /\ args' = [script |-> script, t |-> t, half |-> half]
          /\ result' = script_targets(script, t, half)
    /\ TrackerUnchanged
    /\ UNCHANGED <<eye_cache, inserted_at, n_inserts, loops>>

NextScripts == RunScript

SpecScripts == Init /\ [][NextScripts]_vars

\* The three threads.  A thread that has ended takes no step; stop runs once.
LoopsOnly == UNCHANGED <<tracker, camera_pc, eye_cache, inserted_at, n_inserts,
                         args, result>>

CameraStep ==
    /\ loops.camera_at # "done"
    /\ \E raised \in BOOLEAN : loops' = camera_thread(loops, raised)
    /\ LoopsOnly

RenderStep ==
    /\ loops.render_at # "done"
    /\ \E raised \in BOOLEAN, changed \in BOOLEAN :
           loops' = display_thread_func(loops, raised, changed)
    /\ LoopsOnly

StopStep ==
    /\ loops.stop_at # "stopped"
    /\ loops' = stop(loops)
    /\ LoopsOnly

NextLoops == CameraStep \/ RenderStep \/ StopStep

\* Every thread that can take a step takes one in the end (a capture
\* returns or raises, a sleep ends), and stop is called.
SpecLoops ==
    /\ Init /\ [][NextLoops]_vars
    /\ WF_vars(CameraStep) /\ WF_vars(RenderStep) /\ WF_vars(StopStep)

\* The render loop ends a tick: it comes back to the test of its loop from
\* the sleep that ends the tick or from the except clause.
RenderTickEnds ==
    /\ RenderStep
    /\ loops.render_at \in {"sleep", "except"}
    /\ loops'.render_at = "while"

\* Only the render loop is sure to take its steps: the acquisition loop may
\* stay in a step for ever, and stop need not be called.
SpecRenderLoop ==
    /\ Init /\ [][NextLoops]_vars
    /\ WF_vars(RenderStep)

\* The cycles of camera_thread.  result counts the cycles made.
CadenceStart ==
    /\ args = None
    /\ args' = [face_detection_counter |-> tracker.face_detection_counter]
    /\ result' = 0
    /\ TrackerUnchanged
    /\ UNCHANGED <<eye_cache, inserted_at, n_inserts, loops>>

CameraCycle ==
    /\ args # None
    /\ result < MaxCycles
    /\ \E motion_boxes \in MotionInputs, faces \in FaceInputs, draw \in Draws :
           tracker' = camera_cycle(tracker, motion_boxes, faces, draw)
    /\ result' = result + 1
    /\ UNCHANGED <<camera_pc, args>>
    /\ UNCHANGED <<eye_cache, inserted_at, n_inserts, loops>>

\* One second passes between two cycles.
CadencePause ==
    /\ args # None
    /\ tracker' = advance_clock(tracker)
    /\ UNCHANGED <<camera_pc, args, result>>
    /\ UNCHANGED <<eye_cache, inserted_at, n_inserts, loops>>

NextCadence == CadenceStart \/ CameraCycle \/ CadencePause

SpecCadence == Init /\ [][NextCadence]_vars

\* The EyeTracker object with the eye state the render loop draws from.
\* tracker holds the fields the acquisition loop works on, args the eye
\* state (the current positions, colour and size index, and the blink);
\* every call is made on the one object that has the fields of both.
\* result counts the calls and names the thread of the last one.
whole_tracker(s, eye) ==
    [f \in DOMAIN s \cup DOMAIN eye |-> IF f \in DOMAIN eye THEN eye[f] ELSE s[f]]

fields_of(w, fields) == [f \in fields |-> w[f]]

\* __init__, lines 37-56, 104 and 121
OwnStart ==
    /\ args = None
    /\ args' = [current_left_eye |-> center_pos,
                current_right_eye |-> center_pos,
                current_eye_color |-> [i \in 1..3 |-> base_eye_color[i] * ColourScale],
                current_eye_size_index |-> neutral_eye_size_index * IndexScale,
                eye_movement_speed |-> <<8, 100>>,
                is_blinking |-> FALSE,
                blink_state |-> 100,
                blink_direction |-> 0 - 1,
                since_blink |-> 0,
                next_blink_delay |-> 3]
    /\ result' = [steps |-> 0, last |-> "none"]
    /\ TrackerUnchanged
    /\ UNCHANGED <<eye_cache, inserted_at, n_inserts, loops>>

\* camera_thread's call of update_face_detection
OwnFaceCheck ==
    /\ args # None
    /\ result.steps < MaxOwnSteps
    /\ \E faces \in FaceInputs :
           LET w == update_face_detection(whole_tracker(tracker, args), faces)
           IN /\ tracker' = fields_of(w, DOMAIN tracker)
              /\ args' = fields_of(w, DOMAIN args)
    /\ result' = [steps |-> result.steps + 1, last |-> "acquisition"]
    /\ UNCHANGED camera_pc
    /\ UNCHANGED <<eye_cache, inserted_at, n_inserts, loops>>

\* camera_thread's call of update_eye_position
OwnPositionUpdate ==
    /\ args # None
    /\ result.steps < MaxOwnSteps
    /\ \E motion_boxes \in MotionInputs, draw \in Draws :
           LET w == update_eye_position(whole_tracker(tracker, args),
                                        motion_boxes, draw)
           IN /\ tracker' = fields_of(w, DOMAIN tracker)
              /\ args' = fields_of(w, DOMAIN args)
    /\ result' = [steps |-> result.steps + 1, last |-> "acquisition"]
    /\ UNCHANGED camera_pc
    /\ UNCHANGED <<eye_cache, inserted_at, n_inserts, loops>>

\* display_thread_func, lines 812-849: one tick of the render loop
OwnRenderTick ==
    /\ args # None
    /\ result.steps < MaxOwnSteps
    /\ \E pos \in IdleScriptPositions, due \in BOOLEAN, delay \in BlinkDelays :
           LET w1 == smooth_eye_movement(whole_tracker(tracker, args))
               w2 == update_idle_animation(w1, <<pos, pos>>)
               w3 == update_eye_size_smoothly(w2, w2)
               w4 == blink_step(w3, due, delay)
               w5 == update_eye_color(w4, w4)
           IN /\ tracker' = fields_of(w5, DOMAIN tracker)
              /\ args' = fields_of(w5, DOMAIN args)
    /\ result' = [steps |-> result.steps + 1, last |-> "render"]
    /\ UNCHANGED camera_pc
    /\ UNCHANGED <<eye_cache, inserted_at, n_inserts, loops>>

\* One second passes.
OwnPause ==
    /\ args # None
    /\ tracker' = advance_clock(tracker)
    /\ UNCHANGED <<camera_pc, args, result>>
    /\ UNCHANGED <<eye_cache, inserted_at, n_inserts, loops>>

NextOwnership == OwnStart \/ OwnFaceCheck \/ OwnPositionUpdate \/ OwnRenderTick
                    \/ OwnPause

SpecOwnership == Init /\ [][NextOwnership]_vars

\* The two loops interleaved.  args holds where each thread is and the
\* arguments of the acquisition thread's call; result, whether the render
\* thread's call has raised.
RaceStart ==
    /\ args = None
    /\ args' = [camera_at |-> "call", render_at |-> "call",
                motion_boxes |-> <<>>, draw |-> CHOOSE d \in Draws : TRUE]
    /\ result' = [failed |-> FALSE]
    /\ TrackerUnchanged
    /\ UNCHANGED <<eye_cache, inserted_at, n_inserts, loops>>

RaceCameraBegin ==
    /\ args # None
    /\ args.camera_at = "call"
    /\ \E motion_boxes \in MotionInputs, draw \in Draws :
           LET begun == update_eye_position_begin(tracker, motion_boxes)
           IN /\ tracker' = begun.s
              /\ args' = [args EXCEPT !.camera_at = begun.at,
                                      !.motion_boxes = motion_boxes,
                                      !.draw = draw]
    /\ UNCHANGED <<camera_pc, result>>
    /\ UNCHANGED <<eye_cache, inserted_at, n_inserts, loops>>

RaceCameraEnd ==
    /\ args # None
    /\ args.camera_at # "call"
    /\ tracker' = update_eye_position_end(tracker, args.camera_at,
                                          args.motion_boxes, args.draw)
    /\ args' = [args EXCEPT !.camera_at = "call"]
    /\ UNCHANGED <<camera_pc, result>>
    /\ UNCHANGED <<eye_cache, inserted_at, n_inserts, loops>>

RaceRenderStep ==
    /\ args # None
    /\ \E pos \in IdleScriptPositions :
           LET step == update_idle_animation_step(tracker, args.render_at, <<pos, pos>>)
           IN /\ tracker' = step.s
              /\ args' = [args EXCEPT !.render_at = step.at]
              /\ result' = [failed |-> result.failed \/ step.failed]
    /\ UNCHANGED camera_pc
    /\ UNCHANGED <<eye_cache, inserted_at, n_inserts, loops>>

\* One second passes.
RacePause ==
    /\ args # None
    /\ tracker' = advance_clock(tracker)
    /\ UNCHANGED <<camera_pc, args, result>>
    /\ UNCHANGED <<eye_cache, inserted_at, n_inserts, loops>>

NextRace == RaceStart \/ RaceCameraBegin \/ RaceCameraEnd \/ RaceRenderStep
               \/ RacePause

SpecRace == Init /\ [][NextRace]_vars

\* Idle episodes one after the other: the cycles of camera_thread without
\* a face check, the render loop's update_idle_animation, and the clock.
CycleNoFaceCheck ==
    /\ camera_pc = "face_check"
    /\ camera_pc' = "update_eye_position"
    /\ UNCHANGED tracker
    /\ CacheUnchanged

CyclePositionUpdate ==
    /\ camera_pc = "update_eye_position"
    /\ \E motion_boxes \in MotionInputs, draw \in IdleCycleDraws :
           tracker' = update_eye_position(tracker, motion_boxes, draw)
    /\ camera_pc' = "face_check"
    /\ CacheUnchanged

CycleRenderTick ==
    /\ \E pos \in IdleScriptPositions :
           tracker' = update_idle_animation(tracker, <<pos, pos>>)
    /\ UNCHANGED camera_pc
    /\ CacheUnchanged

CyclePause ==
    /\ tracker' = advance_clock(tracker)
    /\ UNCHANGED camera_pc
    /\ CacheUnchanged

NextIdleCycle == CycleNoFaceCheck \/ CyclePositionUpdate \/ CycleRenderTick
                    \/ CyclePause

SpecIdleCycle == Init /\ [][NextIdleCycle]_vars

\* The ticks of the render loop, seen from _update_both_displays.  args is
\* the object; result keeps, for the last tick, what the tick changed
\* before it called _update_both_displays, the object as that call found
\* it and which displays it wrote.
DisplayStart ==
    /\ args = None
    /\ args' = [current_left_eye |-> <<1200, 1200>>,
                current_right_eye |-> <<1200, 1200>>,
                is_blinking |-> FALSE,
                blink_state |-> 100,
                blink_direction |-> 0 - 1,
                since_blink |-> 0,
                next_blink_delay |-> 3,
                left_blink_state |-> 100,
                right_blink_state |-> 100,
                idle_mode |-> FALSE,
                current_eye_color |-> base_eye_color,
                current_eye_size_index |-> neutral_eye_size_index,
                last_rendered_pos_left |-> None,
                last_rendered_pos_right |-> None,
                last_blink_state |-> 100]
    /\ result' = [ticked |-> FALSE, before |-> None,
                  left |-> FALSE, right |-> FALSE]
    /\ TrackerUnchanged
    /\ UNCHANGED <<eye_cache, inserted_at, n_inserts, loops>>

\* One tick of the render loop (lines 812-852): smooth_eye_movement moves
\* the eyes, update_idle_animation sets the mode and the blink overrides,
\* update_eye_size_smoothly and update_eye_color change the look, the blink
\* takes its step, and _update_both_displays runs.
DisplayTick ==
    /\ args # None
    /\ \E left_x \in DisplayCoordInputs, right_x \in {1200, 1230},
          override \in OverrideInputs, look \in LookInputs, due \in BOOLEAN :
           LET eye_color == look[1]
               size_index == look[2]
               blinked == blink_step(args, due, 3)
               found == [blinked EXCEPT !.current_left_eye = <<left_x, 1200>>,
                                        !.current_right_eye = <<right_x, 1200>>,
                                        !.idle_mode = (override # <<100, 100>>),
                                        !.left_blink_state = override[1],
                                        !.right_blink_state = override[2],
                                        !.current_eye_color = eye_color,
                                        !.current_eye_size_index = size_index]
               changes ==
                   {c \in {"position", "blink", "colour", "size", "override"} :
                       \/ c = "position"
                          /\ <<found.current_left_eye, found.current_right_eye>>
                                # <<args.current_left_eye, args.current_right_eye>>
                       \/ c = "blink"
                          /\ <<found.blink_state, found.is_blinking>>
                                # <<args.blink_state, args.is_blinking>>
                       \/ c = "colour" /\ eye_color # args.current_eye_color
                       \/ c = "size" /\ size_index # args.current_eye_size_index
                       \/ c = "override"
                          /\ override # <<args.left_blink_state, args.right_blink_state>>}
               updated == update_both_displays(found)
           IN /\ args' = updated.d
              /\ result' = [ticked |-> TRUE,
                            before |-> [args |-> found, changes |-> changes],
                            left |-> updated.left, right |-> updated.right]
    /\ TrackerUnchanged
    /\ UNCHANGED <<eye_cache, inserted_at, n_inserts, loops>>

NextDisplayWrites == DisplayStart \/ DisplayTick

SpecDisplayWrites == Init /\ [][NextDisplayWrites]_vars

\* An Idle episode in which the alternating-blink script runs, a render
\* tick every 50 ms.  args is the tracker with the time t the script is at
\* and the blink states the script object holds; result is the time of the
\* script's last update (NoTime before the first).
ScriptBlinkStart ==
    /\ args = None
    /\ args' = [idle_mode |-> TRUE, idle_elapsed |-> 0,
                idle_animation_started |-> TRUE,
                target_left_eye |-> center_pos, target_right_eye |-> center_pos,
                motion_history |-> <<>>,
                left_blink_state |-> 100, right_blink_state |-> 100,
                script |-> [left_blink_state |-> 100, right_blink_state |-> 100],
                t |-> 0]
    /\ result' = [t |-> NoTime]
    /\ TrackerUnchanged
    /\ UNCHANGED <<eye_cache, inserted_at, n_inserts, loops>>

\* update_idle_animation, lines 670 and 684-688, 50 ms after the last one
ScriptBlinkTick ==
    /\ args # None
    /\ args.idle_mode
    /\ args.t <= 50 * MaxScriptSteps
    /\ LET anim == script_update(args.script, args.t)
       IN args' = [copy_script_blink(args, anim) EXCEPT !.script = anim,
                                                        !.t = @ + 50]
    /\ result' = [t |-> args.t]
    /\ TrackerUnchanged
    /\ UNCHANGED <<eye_cache, inserted_at, n_inserts, loops>>

\* Idle ends, through a motion event or the resume timer
ScriptBlinkExit ==
    /\ args # None
    /\ args.idle_mode
    /\ args' = exit_idle_mode(args)
    /\ UNCHANGED result
    /\ TrackerUnchanged
    /\ UNCHANGED <<eye_cache, inserted_at, n_inserts, loops>>

NextScriptBlink == ScriptBlinkStart \/ ScriptBlinkTick \/ ScriptBlinkExit

SpecScriptBlink == Init /\ [][NextScriptBlink]_vars

\* The blink fields after __init__ (lines 48-52); since_blink is the time
\* since last_blink_time, result the number of render ticks the blink in
\* progress has taken.
BlinkCycleStart ==
    /\ args = None
    /\ \E delay \in BlinkCycleDelays :
          args' = [is_blinking |-> FALSE, blink_state |-> 100,
                   blink_direction |-> 0 - 1, since_blink |-> 0,
                   next_blink_delay |-> delay]
    /\ result' = [ticks |-> 0]
    /\ TrackerUnchanged
    /\ UNCHANGED <<eye_cache, inserted_at, n_inserts, loops>>

\* A render tick, lines 821-846, span after the tick before it.
BlinkCycleTick ==
    /\ args # None
    /\ \E delay \in BlinkCycleDelays, span \in TickSpans :
          LET s == [args EXCEPT
                       !.since_blink = Min(@ + span, SetMax(BlinkCycleDelays))]
              blinked == blink_step(s, s.since_blink >= s.next_blink_delay,
                                    delay)
          IN /\ args' = blinked
             /\ result' = [ticks |-> IF args.is_blinking THEN result.ticks + 1
                                     ELSE IF blinked.is_blinking THEN 1
                                     ELSE 0]
    /\ TrackerUnchanged
    /\ UNCHANGED <<eye_cache, inserted_at, n_inserts, loops>>

NextBlinkCycle == BlinkCycleStart \/ BlinkCycleTick

\* The render loop goes on from tick to tick (lines 803-859).
SpecBlinkCycle == Init /\ [][NextBlinkCycle]_vars /\ WF_vars(BlinkCycleTick)

\* One pixel packed by create_eye_image and by display_numpy.
PackPixel ==
    /\ args = None
    /\ \E r \in PackingInputs, g \in PackingInputs, b \in PackingInputs :
           /\ args' = [rgb |-> <<r, g, b>>]
           /\ result' = [rgb565_full |-> rgb565(<<r, g, b>>),
                         rgb565_bytes |-> rgb565_bytes(<<r, g, b>>),
                         rgb565 |-> display_numpy_rgb565(<<r, g, b>>),
                         pixels |-> display_numpy_pixels(<<r, g, b>>)]
    /\ TrackerUnchanged
    /\ UNCHANGED <<eye_cache, inserted_at, n_inserts, loops>>

NextPacking == PackPixel

SpecPacking == Init /\ [][NextPacking]_vars

NextEncoder == EncodePixel

SpecEncoder == Init /\ [][NextEncoder]_vars

(***************************************************************************)
(* Properties of the perception state machine                              *)
(***************************************************************************)
\* the step is the face check of a cycle, called with faces
IsFaceCheck(faces) ==
    /\ camera_pc = "face_check" /\ camera_pc' = "update_eye_position"
    /\ tracker' = update_face_detection(tracker, faces)

\* the step is a cycle's call of update_eye_position with motion_boxes
IsPositionUpdate(motion_boxes, draw) ==
    /\ camera_pc = "update_eye_position" /\ camera_pc' = "face_check"
    /\ tracker' = update_eye_position(tracker, motion_boxes, draw)

\* the step is the render loop's call of update_idle_animation
IsIdleUpdate(pos) ==
    /\ camera_pc' = camera_pc
    /\ tracker' = update_idle_animation(tracker, <<pos, pos>>)

\* both targets are the mean of the motion history (its only entry while it
\* has one), and the newest entry of the history is pos
TargetsFollow(s, pos) ==
    /\ s.motion_history # <<>>
    /\ s.motion_history[Len(s.motion_history)] = pos
    /\ LET target == IF Len(s.motion_history) >= 2
                     THEN MeanPos(s.motion_history) ELSE pos
       IN s.target_left_eye = target /\ s.target_right_eye = target

\* C1: the idle flag and the face-following flag are never both true.
C1_ExactlyOneMode == ~(tracker.idle_mode /\ tracker.face_following_mode)

\* C2 as stated: after update_eye_position with a non-empty list of motion
\* boxes, idle_mode and face_following_mode are false, current_face_center
\* is cleared, and the targets come from that cycle's largest box.
C2_MotionPriorityAsStated ==
    [][\A motion_boxes \in MotionInputs, draw \in Draws :
           (Len(motion_boxes) > 0 /\ IsPositionUpdate(motion_boxes, draw))
           => /\ ~tracker'.idle_mode
              /\ ~tracker'.face_following_mode
              /\ tracker'.current_face_center = None
              /\ TargetsFollow(tracker', MapToDisplay(BoxCenter(Largest(motion_boxes))))
      ]_vars

\* C2 amended: after update_eye_position with a non-empty list of motion
\* boxes, idle_mode and face_following_mode are false and the targets come
\* from that cycle's largest box; current_face_center is cleared when
\* face-following was active at the call and is otherwise left as it was.
C2_MotionPriority ==
    [][\A motion_boxes \in MotionInputs, draw \in Draws :
           (Len(motion_boxes) > 0 /\ IsPositionUpdate(motion_boxes, draw))
           => /\ ~tracker'.idle_mode
              /\ ~tracker'.face_following_mode
              /\ tracker'.current_face_center =
                     IF tracker.face_following_mode THEN None
                     ELSE tracker.current_face_center
              /\ TargetsFollow(tracker', MapToDisplay(BoxCenter(Largest(motion_boxes))))
      ]_vars

\* A motion event has just been processed (no time has passed since) while
\* a face centre recorded outside face-following is still held.
C2_Witness ==
    /\ tracker.since_motion = 0
    /\ ~tracker.idle_mode /\ ~tracker.face_following_mode
    /\ tracker.current_face_center # None
    /\ Len(tracker.motion_history) >= 2
    /\ tracker.target_left_eye = MeanPos(tracker.motion_history)

\* C3: from MotionTracking a face check that reports a face activates
\* face-following exactly when more than the settle window has passed since
\* the last motion event; and the motion-free update_eye_position of the
\* same cycle leaves the mode active.
C3_SettleWindow ==
    [][/\ \A faces \in FaceInputs :
              (/\ Len(faces) > 0
               /\ ~tracker.idle_mode /\ ~tracker.face_following_mode
               /\ IsFaceCheck(faces))
              => (tracker'.face_following_mode
                      <=> tracker.since_motion > settle_window)
       /\ \A draw \in Draws :
              (/\ tracker.face_following_mode
               /\ tracker.since_face_following = 0
               /\ IsPositionUpdate(<<>>, draw))
              => tracker'.face_following_mode
      ]_vars

\* Face-following has been entered at this instant, at the first second
\* after the settle window.
C3_Witness ==
    /\ tracker.face_following_mode /\ ~tracker.idle_mode
    /\ tracker.since_face_following = 0
    /\ tracker.since_motion = settle_window + 1
    /\ tracker.current_face_center # None

\* C4: face-following ends only by a motion event or by the expiry of the
\* hold timer (more than face_following_timeout since the last refresh).
C4_FaceFollowingEndsOnlyByMotionOrTimer ==
    [][(tracker.face_following_mode /\ ~tracker'.face_following_mode)
       => \/ \E motion_boxes \in MotionInputs, draw \in Draws :
                 Len(motion_boxes) > 0 /\ IsPositionUpdate(motion_boxes, draw)
          \/ tracker.since_face_following > face_following_timeout
      ]_vars

\* C5: a motion-free update_eye_position made outside Idle when the time
\* since the last motion exceeds the armed delay starts Idle, and Idle
\* never starts while that time is below the armed delay.
C5_IdleTrigger ==
    [][/\ \A draw \in Draws :
              (/\ ~tracker.idle_mode
               /\ tracker.since_motion > tracker.idle_trigger_delay
               /\ IsPositionUpdate(<<>>, draw))
              => tracker'.idle_mode
       /\ (~tracker.idle_mode /\ tracker'.idle_mode)
              => tracker.since_motion >= tracker.idle_trigger_delay
      ]_vars

\* Idle has just started: no time has passed in it, no script is chosen yet,
\* and the delays have been re-armed.
C5_Witness ==
    /\ tracker.idle_mode
    /\ tracker.idle_elapsed = 0
    /\ ~tracker.idle_animation_started
    /\ tracker.since_motion >= SetMax(InitialTriggerDelays)
    /\ tracker.idle_trigger_delay \in RearmTriggerDelays

\* C6 as stated: a motion event processed while Idle is active leaves the
\* mode MotionTracking and both targets at the display centre.
C6_MotionEndsIdleAsStated ==
    [][\A motion_boxes \in MotionInputs, draw \in Draws :
           (/\ Len(motion_boxes) > 0
            /\ tracker.idle_mode
            /\ IsPositionUpdate(motion_boxes, draw))
           => /\ ~tracker'.idle_mode /\ ~tracker'.face_following_mode
              /\ tracker'.target_left_eye = center_pos
              /\ tracker'.target_right_eye = center_pos
      ]_vars

\* C6 amended: a motion event processed while Idle is active leaves the
\* mode MotionTracking with the idle timer cleared; the motion history is
\* restarted and holds the position of that cycle's largest motion box
\* alone, and both targets are that position (the centre written by
\* exit_idle_mode is overwritten within the same call).
C6_MotionEndsIdle ==
    [][\A motion_boxes \in MotionInputs, draw \in Draws :
           (/\ Len(motion_boxes) > 0
            /\ tracker.idle_mode
            /\ IsPositionUpdate(motion_boxes, draw))
           => LET pos == MapToDisplay(BoxCenter(Largest(motion_boxes)))
              IN /\ ~tracker'.idle_mode /\ ~tracker'.face_following_mode
                 /\ tracker'.idle_elapsed = NoTime
                 /\ ~tracker'.idle_animation_started
                 /\ tracker'.motion_history = <<pos>>
                 /\ tracker'.target_left_eye = pos
                 /\ tracker'.target_right_eye = pos
      ]_vars

\* Idle has been entered before (the delay is a re-armed one), and a motion
\* event has just been processed and has restarted the history: the mode is
\* MotionTracking and the targets are off the centre.
C6_Witness ==
    /\ tracker.idle_trigger_delay \in RearmTriggerDelays
    /\ ~tracker.idle_mode /\ ~tracker.face_following_mode
    /\ tracker.idle_elapsed = NoTime
    /\ tracker.since_motion = 0
    /\ Len(tracker.motion_history) = 1
    /\ tracker.target_left_eye = tracker.motion_history[1]
    /\ tracker.target_left_eye # center_pos

\* C7: when update_idle_animation finds the resume timer expired, the mode
\* it leaves is MotionTracking: neither flag is set.
C7_ResumeLeavesMotionTracking ==
    [][\A pos \in IdleScriptPositions :
           (/\ tracker.idle_mode
            /\ tracker.idle_elapsed >= tracker.idle_resume_delay
            /\ IsIdleUpdate(pos))
           => ~tracker'.idle_mode /\ ~tracker'.face_following_mode
      ]_vars

\* C8: whenever update_eye_position returns with face-following active and
\* a face centre known, the targets it leaves come from the face position.
C8_FaceOverIdle ==
    [][\A motion_boxes \in MotionInputs, draw \in Draws :
           (/\ IsPositionUpdate(motion_boxes, draw)
            /\ tracker'.face_following_mode
            /\ tracker'.current_face_center # None)
           => TargetsFollow(tracker', MapToDisplay(tracker'.current_face_center))
      ]_vars

\* C9: in every mode a face check that reports a face leaves the alert
\* colour as target; the target goes from alert to calm only when the last
\* detection is more than face_detection_timeout old; and the colour target
\* a face check leaves is the same whatever the two mode flags are.
C9_ColourIndependentOfMode ==
    [][/\ \A faces \in FaceInputs :
              IsFaceCheck(faces)
              => /\ Len(faces) > 0 => tracker'.target_eye_color = face_eye_color
                 /\ \A idle, following \in BOOLEAN :
                        update_face_detection(
                            [tracker EXCEPT !.idle_mode = idle,
                                            !.face_following_mode = following],
                            faces).target_eye_color
                        = tracker'.target_eye_color
       /\ (tracker.target_eye_color = face_eye_color
               /\ tracker'.target_eye_color # face_eye_color)
              => /\ tracker'.target_eye_color = base_eye_color
                 /\ tracker.since_face_detection > face_detection_timeout
      ]_vars

\* A face has just been detected while Idle is active: the target is the
\* alert colour.
C9_Witness ==
    /\ tracker.idle_mode
    /\ tracker.face_detected
    /\ tracker.since_face_detection = 0
    /\ tracker.target_eye_color = face_eye_color

(***************************************************************************)
(* Properties of the render cache                                          *)
(***************************************************************************)
\* C10: after any sequence of create_eye_image calls on one cache the cache
\* holds at most cache_size entries, and a call that removes an entry
\* removes exactly one: the entry inserted earliest among those present
\* (a hit does not renew an entry's place).
C10_CacheBound ==
    [][/\ Len(eye_cache) <= cache_size
       /\ Len(eye_cache') <= cache_size
       /\ LET evicted == cached_keys(eye_cache) \ cached_keys(eye_cache')
          IN evicted # {}
             => \E k \in evicted :
                    /\ evicted = {k}
                    /\ \A other \in cached_keys(eye_cache) :
                           inserted_at[k] <= inserted_at[other]
      ]_vars

\* The cache is full after two evictions, and the key inserted first has
\* been inserted again after its eviction.
C10_Witness ==
    /\ Len(eye_cache) = cache_size
    /\ n_inserts = cache_size + 2
    /\ inserted_at[eye_cache[1][1]] = 3
    /\ \E i \in 1..Len(eye_cache) :
           /\ inserted_at[eye_cache[i][1]] = n_inserts
           /\ \A k \in DOMAIN inserted_at : k # eye_cache[i][1] => inserted_at[k] # 1

\* C11: a create_eye_image call whose key is in the cache returns the bytes
\* stored under the key and leaves the cache as it was: same entries, same
\* order.
C11_HitLeavesCacheUnchanged ==
    \A eye_x \in EyeXInputs, eye_y \in EyeYInputs,
       blink_state \in BlinkInputs, eye_color \in ColourInputs :
        LET key == cache_key(eye_x, eye_y, blink_state, eye_color)
        IN key \in cached_keys(eye_cache)
           => /\ create_eye_image(eye_cache, eye_x, eye_y, blink_state, eye_color)
                     = eye_cache
              /\ create_eye_image_returns(eye_cache, eye_x, eye_y,
                                          blink_state, eye_color)
                     = stored(eye_cache, key)

\* A full cache that has already evicted, in which a call can hit an entry
\* that is neither the oldest nor the newest.
C11_Witness ==
    /\ Len(eye_cache) = cache_size
    /\ n_inserts > cache_size
    /\ \E eye_x \in EyeXInputs, eye_y \in EyeYInputs,
          blink_state \in BlinkInputs, eye_color \in ColourInputs :
           /\ eye_cache[2][1] = cache_key(eye_x, eye_y, blink_state, eye_color)
           /\ create_eye_image(eye_cache, eye_x, eye_y, blink_state, eye_color)
                  = eye_cache

\* C12: any two create_eye_image calls whose arguments have the same cache
\* key return the same bytes, whether the first is served from the cache in
\* use or the second renders into an empty cache.
C12_SameKeySameBytes ==
    \A eye_x1 \in EyeXInputs, eye_x2 \in EyeXInputs, eye_y \in EyeYInputs,
       blink1 \in BlinkInputs, blink2 \in BlinkInputs, eye_color \in ColourInputs :
        cache_key(eye_x1, eye_y, blink1, eye_color)
            = cache_key(eye_x2, eye_y, blink2, eye_color)
        => create_eye_image_returns(eye_cache, eye_x1, eye_y, blink1, eye_color)
               = create_eye_image_returns(<<>>, eye_x2, eye_y, blink2, eye_color)

(***************************************************************************)
(* Properties of the encoder                                               *)
(***************************************************************************)
\* C13: for every 8-bit (r, g, b) the encoder gives two bytes, the high byte
\* first, of the 16-bit value whose fields are r >> 3 (5 bits, at most 31),
\* g >> 2 (6 bits, at most 63) and b >> 3 (5 bits, at most 31); and an
\* encoded frame is WIDTH * HEIGHT * 2 bytes long.
C13_Rgb565 ==
    /\ frame_length = WIDTH * HEIGHT * 2
    /\ result # None
       => LET value == result[1] * 256 + result[2]
              red == value \div 2048
              green == (value \div 32) % 64
              blue == value % 32
          IN /\ Len(result) = 2
             /\ result[1] \in 0..255 /\ result[2] \in 0..255
             /\ red = args[1] \div 8 /\ red <= 31
             /\ green = args[2] \div 4 /\ green <= 63
             /\ blue = args[3] \div 8 /\ blue <= 31

\* White has been encoded: every field is at its maximum, 0xFFFF.
C13_Witness ==
    /\ args = <<255, 255, 255>>
    /\ result = <<255, 255>>

(***************************************************************************)
(* Properties of the position smoother                                     *)
(***************************************************************************)
Abs(x) == IF x < 0 THEN 0 - x ELSE x

\* the pairs <<current, target>> of the four axes of the eye state s
Axes(s) ==
    { <<s.current_left_eye[k], s.target_left_eye[k]>> : k \in 1..2 }
        \cup { <<s.current_right_eye[k], s.target_right_eye[k]>> : k \in 1..2 }

\* C14 as stated: with a fixed target every smooth_eye_movement step
\* strictly decreases |current - target| while current differs from the
\* target, never passes the target, and changes nothing at the target.
C14_SmoothingAsStated ==
    args # None
    => \A a \in Axes(args) :
           LET new == smooth_axis(a[1], a[2], args.eye_movement_speed)
           IN /\ a[1] # a[2] => Abs(new - a[2]) < Abs(a[1] - a[2])
              /\ (new - a[2]) * (a[1] - a[2]) >= 0
              /\ a[1] = a[2] => new = a[1]

\* C14 amended: every smooth_eye_movement step leaves |current - target| no
\* larger, never passes the target and changes nothing at the target; it
\* strictly decreases |current - target| when |current - target| * speed is
\* more than half a unit in the last place, and changes nothing when it is
\* less, so the eye can come to rest a few units short of the target.
C14_SmoothingContracts ==
    args # None
    => \A a \in Axes(args) :
           LET speed == args.eye_movement_speed
               new == smooth_axis(a[1], a[2], speed)
               step == 2 * Abs(a[1] - a[2]) * speed[1]
           IN /\ Abs(new - a[2]) <= Abs(a[1] - a[2])
              /\ (new - a[2]) * (a[1] - a[2]) >= 0
              /\ a[1] = a[2] => new = a[1]
              /\ step > speed[2] => Abs(new - a[2]) < Abs(a[1] - a[2])
              /\ step < speed[2] => new = a[1]

\* After several steps at speed 0.08 the left eye rests off its target: the
\* next step changes nothing.
C14_Witness ==
    /\ args # None
    /\ result >= 3
    /\ args.eye_movement_speed = <<8, 100>>
    /\ args.current_left_eye[1] # args.target_left_eye[1]
    /\ smooth_eye_movement(args) = args

(***************************************************************************)
(* Properties of the motion and face adapters                              *)
(***************************************************************************)
\* pos lies in [margin, WIDTH - margin] x [margin, HEIGHT - margin]
InsideMargin(pos) ==
    /\ pos[1] >= display_margin * Scale
    /\ pos[1] <= (WIDTH - display_margin) * Scale
    /\ pos[2] >= display_margin * Scale
    /\ pos[2] <= (HEIGHT - display_margin) * Scale

\* C15: for every bounding box inside the sensor frame, the whole frame
\* included, the position the motion adapter and the face adapter compute
\* lies within the margin-adjusted display bounds, and so do the targets of
\* both eyes after averaging over the position history.
C15_TargetsInsideMargin ==
    /\ \A box \in FrameBoxes :
           /\ InsideMargin(motion_eye_position(<<box>>))
           /\ InsideMargin(get_eye_position_from_face(BoxCenter(box)))
    /\ \A i \in 1..Len(tracker.motion_history) :
           InsideMargin(tracker.motion_history[i])
    /\ InsideMargin(tracker.target_left_eye)
    /\ InsideMargin(tracker.target_right_eye)

\* A full history whose oldest entry is the corner of the bounds the motion
\* adapter produced and whose newest is the one the face adapter produced
\* while a face is followed, with targets that are the mean of the history.
C15_Witness ==
    /\ <<0, 0, camera_width, camera_height>> \in FrameBoxes
    /\ tracker.face_following_mode
    /\ Len(tracker.motion_history) = motion_history_size
    /\ tracker.motion_history[1] = motion_eye_position(<< <<0, 0, 1, 1>> >>)
    /\ tracker.motion_history[1] = Px(WIDTH - display_margin, display_margin)
    /\ tracker.motion_history[motion_history_size]
           = get_eye_position_from_face(tracker.current_face_center)
    /\ tracker.target_left_eye = MeanPos(tracker.motion_history)
    /\ tracker.target_left_eye # tracker.motion_history[motion_history_size]
    /\ tracker.target_left_eye # tracker.motion_history[1]

\* C16 as stated: the motion box (10,10,20,20) in a 100x100 sensor frame is
\* mapped to a point with display x below WIDTH/2 and display y below
\* HEIGHT/2, inside the margin-adjusted bounds.
C16_CornerBoxMapsLeftAndAbove ==
    args = << <<100, 100>>, <<10, 10, 20, 20>> >>
        => /\ 2 * result[1] < WIDTH * Scale
           /\ 2 * result[2] < HEIGHT * Scale
           /\ InsideMargin(result)

\* C16, amended: the x axis is inverted, so the motion box (10,10,20,20) in
\* a 100x100 sensor frame is mapped to the point (180, 60): display x above
\* WIDTH/2, display y below HEIGHT/2, inside the margin-adjusted bounds; and
\* every box whose centre is left of the sensor centre maps to a display x
\* above WIDTH/2.
C16_CornerBoxMapsRightAndAbove ==
    /\ args = << <<100, 100>>, <<10, 10, 20, 20>> >>
          => /\ result = Px(180, 60)
             /\ 2 * result[1] > WIDTH * Scale
             /\ 2 * result[2] < HEIGHT * Scale
             /\ InsideMargin(result)
    /\ args # None
          => /\ InsideMargin(result)
             /\ 2 * BoxCenter(args[2])[1] < args[1][1] => 2 * result[1] > WIDTH * Scale
             /\ 2 * BoxCenter(args[2])[1] > args[1][1] => 2 * result[1] < WIDTH * Scale
             /\ 2 * BoxCenter(args[2])[2] < args[1][2] => 2 * result[2] < HEIGHT * Scale

\* The box of the claim has been mapped in the 100x100 frame.
C16_Witness ==
    /\ args = << <<100, 100>>, <<10, 10, 20, 20>> >>
    /\ result = MapToDisplayIn(<<20, 20>>, 100, 100)
    /\ result[1] = 180 * Scale

(***************************************************************************)
(* Properties of the renderers                                             *)
(***************************************************************************)
\* C17: when create_eye_image is called with blink phase 0 nothing is drawn:
\* every pixel of the buffer stays background and the glow, highlight, iris
\* and pupil masks are all empty, for every eye position and iris radius,
\* in display_settings and in eye_template.
C17_ClosedEyeDrawsNothing ==
    (args # None /\ args.blink_state = 0)
        => /\ result.settings.drawn = {}
           /\ result.template.glow = {}
           /\ result.template.highlight = {}
           /\ result.template.iris = {}
           /\ result.template.pupil = {}

\* C18: for every requested eye position and iris radius the clamped eye
\* centre keeps the glow disk (iris_radius + glow_size) inside the buffer on
\* both axes, in display_settings and in eye_template.
C18_GlowInsideBuffer ==
    args # None
        => /\ \A k \in 1..2 :
                /\ result.settings.center[k] - (iris_radius + glow_size) >= 0
                /\ result.settings.center[k] + (iris_radius + glow_size) <= render_size
           /\ \A k \in 1..2 :
                /\ result.template.center[k] - (args.iris_radius + glow_size) >= 0
                /\ result.template.center[k] + (args.iris_radius + glow_size) <= render_size

(***************************************************************************)
(* Properties of blinking                                                  *)
(***************************************************************************)
\* C19: after every render tick and every update of the blink script each
\* blink value (blink_state, left_blink_state, right_blink_state) lies in
\* [0.0, 1.0].
C19_BlinkValuesInRange ==
    args # None
        => /\ args.blink_state \in 0..100
           /\ args.left_blink_state \in 0..100
           /\ args.right_blink_state \in 0..100

\* The eye has just been closed by the blink step and turned to opening,
\* while the script holds the right eye half way and the left eye open.
C19_Witness ==
    /\ args # None
    /\ args.is_blinking
    /\ args.blink_state = 0
    /\ args.blink_direction = 1
    /\ args.right_blink_state = 40
    /\ args.left_blink_state = 100
    /\ result = blink_duration + hold_duration + 100

(***************************************************************************)
(* Properties of the face-size history                                     *)
(***************************************************************************)
\* the last n elements of seq, in order
LastN(seq, n) == SubSeq(seq, Len(seq) - n + 1, Len(seq))

\* C20: the face-size history never holds more than max_face_history areas,
\* and it is always the most recent areas in arrival order: when it is full
\* a new area displaces the oldest one.
C20_FaceSizeHistory ==
    /\ Len(tracker.face_sizes) <= max_face_history
    /\ tracker.face_sizes = LastN(args, Min(Len(args), max_face_history))

\* More areas have arrived than the history holds, the oldest ones have been
\* displaced, and the history holds different areas.
C20_Witness ==
    /\ Len(args) = max_face_history + 2
    /\ Len(tracker.face_sizes) = max_face_history
    /\ tracker.face_sizes[1] = args[3]
    /\ tracker.face_sizes[1] # args[1]
    /\ tracker.face_sizes[1] # args[2]
    /\ tracker.face_sizes[max_face_history] = args[Len(args)]
    /\ tracker.face_sizes[max_face_history] # tracker.face_sizes[max_face_history - 1]

(***************************************************************************)
(* Properties of the colour and the size of the eyes                       *)
(***************************************************************************)
\* C21: after any sequence of face checks and render ticks every channel of
\* current_eye_color lies in [0, 255], and target_eye_size_index and
\* current_eye_size_index lie in [0, total_eye_sizes - 1], for every
\* detected face area.
C21_ColourAndSizeInRange ==
    /\ tracker.target_eye_size_index \in 0..(total_eye_sizes - 1)
    /\ args # None
          => /\ \A i \in 1..3 :
                  /\ args.current_eye_color[i] >= 0
                  /\ args.current_eye_color[i] <= 255 * ColourScale
             /\ args.current_eye_size_index >= 0
             /\ args.current_eye_size_index <= (total_eye_sizes - 1) * IndexScale

\* A face above max_face_size has driven the size target to the top of the
\* range, and render ticks have moved the colour and the size part of the way.
C21_Witness ==
    /\ args # None
    /\ tracker.target_eye_size_index = total_eye_sizes - 1
    /\ tracker.target_eye_color = face_eye_color
    /\ args.current_eye_color[2] > 0
    /\ args.current_eye_color[2] < 255 * ColourScale
    /\ args.current_eye_size_index > neutral_eye_size_index * IndexScale
    /\ args.current_eye_size_index < (total_eye_sizes - 1) * IndexScale

\* C22: the face check that finds no face when the last detection is more
\* than face_detection_timeout old sets the size target to the neutral
\* default (15, not zero) and clears face_detected; and for as long as no
\* face is detected again the size target stays at the neutral default.
C22_SizeTargetRevertsToNeutral ==
    [][/\ (/\ tracker.face_detected
           /\ tracker.since_face_detection > face_detection_timeout
           /\ IsFaceCheck(<<>>))
          => /\ tracker'.target_eye_size_index = neutral_eye_size_index
             /\ tracker'.target_eye_size_index # 0
             /\ ~tracker'.face_detected
       /\ ~tracker.face_detected
          => tracker.target_eye_size_index = neutral_eye_size_index
       /\ ~tracker'.face_detected
          => tracker'.target_eye_size_index = neutral_eye_size_index
      ]_vars

\* A face had set the size target away from the neutral default and the
\* face timeout has since reverted it.
C22_Witness ==
    /\ ~tracker.face_detected
    /\ tracker.face_sizes # <<>>
    /\ update_face_size(tracker, CHOOSE faces \in FaceInputs : Len(faces) > 0).target_eye_size_index
           # neutral_eye_size_index
    /\ tracker.since_face_detection > face_detection_timeout
    /\ tracker.target_eye_size_index = neutral_eye_size_index
    /\ tracker.target_eye_color = base_eye_color

C24_ScriptsEndAtCentre ==
    (args # None /\ args.t >= script_duration(args.script))
        => result = <<center_pos, center_pos>>

\* The arch sweep at the very end of its duration, back at the centre; half
\* a second earlier it was at the left edge.
C24_Witness ==
    /\ args # None
    /\ args.script = 7
    /\ args.t = script_duration(7)
    /\ result = <<center_pos, center_pos>>
    /\ script_targets(7, args.t - 500, args.half) = <<Px(20, 120), Px(20, 120)>>

(***************************************************************************)
(* Properties of the threads                                               *)
(***************************************************************************)
\* C25: once stop has cleared the running flag, neither loop begins another
\* iteration, both loops end, and both display handles are released,
\* wherever each loop was when the flag was cleared.
C25_OrderlyShutdown ==
    /\ [](~loops.camera_late /\ ~loops.render_late)
    /\ (~loops.running)
          ~> (/\ loops.camera_at = "done"
              /\ loops.render_at = "done"
              /\ loops.display1 = "closed"
              /\ loops.display2 = "closed")

\* Both loops have ended and both displays are closed; the render loop was
\* in an iteration when the displays were closed, so its last frame was
\* dropped.
C25_Witness ==
    /\ ~loops.running
    /\ loops.stop_at = "stopped"
    /\ loops.camera_at = "done"
    /\ loops.render_at = "done"
    /\ loops.display1 = "closed" /\ loops.display2 = "closed"
    /\ loops.frame = "dropped"

\* C26: the render loop does not wait for the acquisition loop.  As long as
\* the running flag stays set, the render loop ends tick after tick, for
\* ever, also when the acquisition loop stays in its capture for ever.
C26_RenderNeverWaits ==
    <>(~loops.running) \/ []<><<RenderTickEnds>>_vars

\* The render loop has written a frame and is at the sleep that ends its
\* tick while the acquisition loop is in its capture.
C26_Witness ==
    /\ loops.running
    /\ loops.camera_at = "capture"
    /\ loops.render_at = "sleep"
    /\ loops.frame = "written"

\* C27: a write to a display that fails does not end the render loop nor
\* hold it: the frame is dropped and, while the running flag is set, the
\* loop goes on to its next tick.
C27_WriteFailureDropsFrame ==
    /\ [](loops.render_at = "done" => ~loops.running)
    /\ [][loops.render_at = "write" /\ loops'.render_at = "except"
             => loops'.frame = "dropped"]_vars
    /\ (loops.render_at = "except" /\ loops.frame = "dropped")
          ~> (loops.render_at = "tick" \/ ~loops.running)

\* The render loop dropped a frame and, with the flag still set and both
\* displays open, is in its next tick.
C27_Witness ==
    /\ loops.running
    /\ loops.display1 = "open" /\ loops.display2 = "open"
    /\ loops.frame = "dropped"
    /\ loops.render_at = "tick"

(***************************************************************************)
(* Properties of the acquisition loop                                      *)
(***************************************************************************)
\* C28: a call of update_eye_position made in Idle with no motion box
\* leaves target_left_eye and target_right_eye as they were; and a step
\* that changes a target while Idle stays on is the render loop's call of
\* update_idle_animation.
C28_IdleTargetsOnlyFromScript ==
    [][/\ (tracker.idle_mode /\ \E draw \in Draws : IsPositionUpdate(<<>>, draw))
          => /\ tracker'.target_left_eye = tracker.target_left_eye
             /\ tracker'.target_right_eye = tracker.target_right_eye
       /\ (/\ tracker.idle_mode /\ tracker'.idle_mode
           /\ \/ tracker'.target_left_eye # tracker.target_left_eye
              \/ tracker'.target_right_eye # tracker.target_right_eye)
          => \E pos \in IdleScriptPositions : IsIdleUpdate(pos)
      ]_vars

\* Idle is on, the script has moved the targets off the centre, the last
\* motion is older than motion_timeout, and update_eye_position has just
\* run.
C28_Witness ==
    /\ tracker.idle_mode
    /\ tracker.target_left_eye # center_pos
    /\ tracker.since_motion > motion_timeout
    /\ camera_pc = "face_check"

\* what the face path owns: face_detected, the colour target, the size
\* target
face_state(s) ==
    <<s.face_detected, s.target_eye_color, s.target_eye_size_index>>

\* C29: every cycle of the acquisition loop calls update_eye_position with
\* the cycle's motion boxes; the cycles whose number is a multiple of
\* face_detection_interval, and only they, run the face check and
\* update_face_detection first, and leave the counter at 0; every other
\* cycle counts the counter up by one, leaves face_detected, the colour
\* target and the size target as they were and does not turn
\* face-following on.
C29_FaceCheckEveryNthCycle ==
    [][(args # None /\ result' = result + 1) =>
         IF result' % face_detection_interval = 0
         THEN /\ tracker'.face_detection_counter = 0
              /\ \E motion_boxes \in MotionInputs, faces \in FaceInputs, draw \in Draws :
                     tracker' = update_eye_position(
                                    update_face_detection(
                                        [tracker EXCEPT !.face_detection_counter = 0],
                                        faces),
                                    motion_boxes, draw)
         ELSE /\ tracker'.face_detection_counter = tracker.face_detection_counter + 1
              /\ face_state(tracker') = face_state(tracker)
              /\ tracker'.face_following_mode => tracker.face_following_mode
              /\ \E motion_boxes \in MotionInputs, draw \in Draws :
                     tracker' = update_eye_position(
                                    [tracker EXCEPT !.face_detection_counter = @ + 1],
                                    motion_boxes, draw)
      ]_vars

\* The second face check has run, on the 40th cycle, and found a face.
C29_Witness ==
    /\ args # None
    /\ result = 2 * face_detection_interval
    /\ tracker.face_detection_counter = 0
    /\ tracker.face_detected
    /\ tracker.since_face_detection = 0

\* the 'current' eye state
current_eye_state(eye) ==
    <<eye.current_left_eye, eye.current_right_eye, eye.current_eye_color,
      eye.current_eye_size_index, eye.blink_state>>

\* C30: a call made by the acquisition loop (update_face_detection,
\* update_eye_position) leaves current_left_eye, current_right_eye,
\* current_eye_color, current_eye_size_index and blink_state as they were;
\* a step that changes one of them is a tick of the render loop.
C30_AcquisitionLeavesEyeState ==
    [][args # None =>
         /\ (result'.steps = result.steps + 1 /\ result'.last = "acquisition")
            => current_eye_state(args') = current_eye_state(args)
         /\ current_eye_state(args') # current_eye_state(args)
            => result'.last = "render" /\ result'.steps = result.steps + 1
      ]_vars

\* The acquisition loop has just moved the targets through a motion box
\* while the eyes stand where the render loop left them, off the targets.
C30_Witness ==
    /\ args # None
    /\ result.last = "acquisition"
    /\ tracker.motion_history # <<>>
    /\ tracker.target_left_eye # args.current_left_eye
    /\ args.current_left_eye # center_pos

(***************************************************************************)
(* Properties of the interleaved loops                                     *)
(***************************************************************************)
\* The cut of update_eye_position is faithful: a call that the render
\* thread does not interrupt leaves what update_eye_position leaves.
CutAgrees ==
    \A motion_boxes \in MotionInputs, draw \in Draws :
        LET begun == update_eye_position_begin(tracker, motion_boxes)
        IN update_eye_position(tracker, motion_boxes, draw)
             = IF begun.at = "call" THEN begun.s
               ELSE update_eye_position_end(begun.s, begun.at, motion_boxes, draw)

\* C31: the render thread writes a script's positions to the targets only
\* while Idle is on: when a motion event has ended Idle (the acquisition
\* thread's call has returned and idle_mode is off), a call of
\* update_idle_animation that was past its test of idle_mode does not
\* write the targets.
C31_NoScriptWriteAfterMotionExit ==
    [][(/\ args # None
        /\ args.render_at = "write_targets"
        /\ args'.render_at = "call")
       => (tracker.idle_mode \/ args.camera_at # "call")]_vars

\* C32: when the render thread, having seen idle_mode true, reads
\* idle_start_time, idle_start_time is a time and not None.
C32_StartTimeSetWhenRead ==
    (args # None /\ args.render_at = "read_idle_start_time")
        => tracker.idle_elapsed # NoTime

\* C33: the render loop is not in _update_both_displays, writing a frame,
\* while a display handle is closed: stop closes a display only when the
\* render loop can no longer be in a write to it.
C33_NoWriteAfterClose ==
    loops.render_at = "write"
        => loops.display1 = "open" /\ loops.display2 = "open"

(***************************************************************************)
(* Properties of the idle cycle                                            *)
(***************************************************************************)
\* C34: the call of update_idle_animation that ends Idle because the resume
\* timer has run out leaves the time since the last motion as it was, and
\* that time is at least the idle-trigger delay armed when Idle began; and
\* a motion-free update_eye_position made outside Idle with the time since
\* the last motion at or above the armed delay starts Idle again.
C34_TimerExitReentersIdle ==
    [][/\ \A pos \in IdleScriptPositions :
              (/\ tracker.idle_mode
               /\ tracker.idle_elapsed >= tracker.idle_resume_delay
               /\ IsIdleUpdate(pos))
              => /\ ~tracker'.idle_mode
                 /\ tracker'.since_motion = tracker.since_motion
                 /\ tracker'.since_motion >= tracker'.idle_trigger_delay
       /\ \A draw \in IdleCycleDraws :
              (/\ ~tracker.idle_mode
               /\ tracker.since_motion >= tracker.idle_trigger_delay
               /\ IsPositionUpdate(<<>>, draw))
              => tracker'.idle_mode /\ tracker'.idle_elapsed = 0
      ]_vars

\* Idle has ended with the delay armed at 9 s, no motion has been seen, and
\* the acquisition loop is about to call update_eye_position.
C34_Witness ==
    /\ ~tracker.idle_mode
    /\ tracker.idle_elapsed = NoTime
    /\ tracker.idle_trigger_delay = 9
    /\ tracker.since_motion >= 9
    /\ tracker.motion_history = <<>>
    /\ camera_pc = "update_eye_position"

(***************************************************************************)
(* Properties of _update_both_displays                                     *)
(***************************************************************************)
\* C35: a call of _update_both_displays writes a display only if that eye's
\* recorded triple (x and y on the 5-pixel grid, the shared blink in
\* tenths) differs from the eye's triple now or the shared blink is in
\* progress with a blink_state other than the one recorded; when only the
\* colour, the size index or a per-eye blink override has changed in the
\* tick, no display is written.
C35_WritesOnlyOnChange ==
    (args # None /\ result.ticked) =>
        LET d == result.before.args
        IN /\ result.left => (left_changed(d) \/ blink_changed(d))
           /\ result.right => (right_changed(d) \/ blink_changed(d))
           /\ (/\ d.last_rendered_pos_left # None
               /\ result.before.changes \subseteq {"colour", "size", "override"})
              => ~result.left /\ ~result.right

\* The tick had changed the colour, the size index and a blink override,
\* and nothing else, when _update_both_displays ran, and it wrote neither
\* display.
C35_Witness ==
    /\ args # None
    /\ result.ticked
    /\ result.before.changes = {"colour", "size", "override"}
    /\ result.before.args.last_rendered_pos_left # None
    /\ ~result.left /\ ~result.right

(***************************************************************************)
(* Properties of the blink overrides                                       *)
(***************************************************************************)
\* C36: once the alternating-blink script has been updated at a time at or
\* past its total_time, or Idle has been left, both blink overrides of the
\* tracker are 1.0 (fully open).
C36_OverridesOpenAfterScript ==
    (args # None /\ (result.t >= total_time \/ ~args.idle_mode))
        => args.left_blink_state = 100 /\ args.right_blink_state = 100

(***************************************************************************)
(* Properties of the blink cycle                                           *)
(***************************************************************************)
\* C37: a blink that has started completes.  blink_state falls from 1.0 to
\* 0.0 by 0.25 per render tick, then rises to 1.0 by 0.2 per tick; then
\* is_blinking is false and a new delay is armed, 9 render ticks after the
\* tick before the blink; and no blink starts before the armed delay has
\* elapsed since the blink before it ended.
C37_BlinkCompletes ==
    /\ [][args # None =>
             /\ args'.is_blinking /\ args'.blink_direction = 0 - 1
                   => args'.blink_state = args.blink_state - 25
             /\ args'.blink_direction = 1 /\ args.blink_direction = 0 - 1
                   => args.blink_state = 25 /\ args'.blink_state = 0
             /\ args.is_blinking /\ args.blink_direction = 1
                   => args'.blink_state = args.blink_state + 20
             /\ args.is_blinking /\ ~args'.is_blinking
                   => /\ result'.ticks = 9
                      /\ args'.blink_state = 100
                      /\ args'.since_blink = 0
                      /\ args'.next_blink_delay \in BlinkCycleDelays
             /\ ~args.is_blinking /\ args'.is_blinking
                   => args'.since_blink >= args.next_blink_delay
             /\ ~args.is_blinking => args.blink_state = 100]_vars
    /\ [](args # None => result.ticks <= 9)
    /\ (args # None /\ args.is_blinking) ~> (args # None /\ ~args.is_blinking)

\* A blink has just ended, on its ninth tick, and the next delay is armed.
C37_Witness ==
    /\ args # None
    /\ ~args.is_blinking
    /\ result.ticks = 9
    /\ args.blink_state = 100
    /\ args.since_blink = 0

(***************************************************************************)
(* Properties of the motion timeout                                        *)
(***************************************************************************)
\* C38: a call of update_eye_position with no motion box that chooses the
\* position in MotionTracking (neither Idle nor following a face) leaves
\* both targets and the motion history as they were while the last motion
\* is at most motion_timeout old, and once it is older sets both targets to
\* the centre and clears the motion history.
C38_CentreAfterMotionTimeout ==
    [][(/\ \E draw \in Draws : IsPositionUpdate(<<>>, draw)
        /\ ~tracker'.idle_mode
        /\ ~(tracker'.face_following_mode
               /\ tracker'.current_face_center # None))
          => /\ tracker.since_motion <= motion_timeout
                  => /\ tracker'.target_left_eye = tracker.target_left_eye
                     /\ tracker'.target_right_eye = tracker.target_right_eye
                     /\ tracker'.motion_history = tracker.motion_history
             /\ tracker.since_motion > motion_timeout
                  => /\ tracker'.target_left_eye = center_pos
                     /\ tracker'.target_right_eye = center_pos
                     /\ tracker'.motion_history = <<>>
      ]_vars

\* MotionTracking, the last motion is one second older than motion_timeout,
\* update_eye_position has just run: the targets are at the centre and the
\* history is empty.
C38_Witness ==
    /\ camera_pc = "face_check"
    /\ ~tracker.idle_mode
    /\ ~tracker.face_following_mode
    /\ tracker.since_motion = motion_timeout + 1
    /\ tracker.target_left_eye = center_pos
    /\ tracker.target_right_eye = center_pos
    /\ tracker.motion_history = <<>>

(***************************************************************************)
(* Properties of the two RGB565 packings                                   *)
(***************************************************************************)
\* C39: for every (r, g, b) the packing of create_eye_image,
\* ((r >> 3) << 11) | ((g >> 2) << 5) | (b >> 3), and the packing of
\* display_numpy, ((r & 0xF8) << 8) | ((g & 0xFC) << 3) | (b >> 3), give the
\* same 16-bit value, and both give its high byte before its low byte.
C39_PackingsAgree ==
    args # None
        => /\ result.rgb565_full = result.rgb565
           /\ result.rgb565_bytes = result.pixels
           /\ result.rgb565_bytes
                 = <<result.rgb565_full \div 256, result.rgb565_full % 256>>
           /\ result.pixels
                 = <<result.rgb565 \div 256, result.rgb565 % 256>>

\* A pixel whose channels all have bits below the masks has been packed:
\* (247, 251, 7) gives 0xF7C0 by both packings.
C39_Witness ==
    /\ args # None
    /\ args.rgb = <<247, 251, 7>>
    /\ result.rgb565 = 63424
    /\ result.pixels = <<247, 192>>
    /\ result.rgb565_bytes = <<247, 192>>

====
